---- MODULE Spec2Model ----
(***************************************************************************)
(* Base (phase0) epoch rewards and penalties of the beacon chain state     *)
(* transition: per_epoch_processing/base/rewards_and_penalties.rs.         *)
(*                                                                         *)
(* Tables (statuses, balances, deltas) are functions over 0..n-1 so that   *)
(* validator indices are the zero-based indices of the source.  A          *)
(* Result<T, Error> is a record [err, val]: err = "none" for Ok(val).      *)
(* u64 arithmetic is checked arithmetic over 0..U64_MAX; the width is      *)
(* scaled down so that overflow is reachable with small numbers.           *)
(***************************************************************************)
EXTENDS Integers, Sequences, FiniteSets, TLC

VARIABLES
    validator_statuses, \* the ValidatorStatuses built for this epoch transition
    call,   \* the entry point invoked and its other arguments (the BeaconState
            \* as it was before the call, the ChainSpec, ...)
    ret     \* what the call returned: the Result, the balance table of the
            \* BeaconState after the call, and the indices for which
            \* get_base_reward was called

vars == <<validator_statuses, call, ret>>

----------------------------------------------------------------------------
(* Bounds of the model *)

\* u64::MAX, scaled down
U64_MAX == 65535
\* the largest length of the validator status table
MaxValidators == 2
\* the largest epoch number
MaxEpoch == 3
\* the largest inclusion delay
MaxDelay == 2

----------------------------------------------------------------------------
(* Protocol constants (ChainSpec, EthSpec); balances are scaled down *)

GENESIS_EPOCH == 0
MIN_EPOCHS_TO_INACTIVITY_PENALTY == 1
EFFECTIVE_BALANCE_INCREMENT == 16
BASE_REWARD_FACTOR == 64
BASE_REWARDS_PER_EPOCH == 4
PROPOSER_REWARD_QUOTIENT == 8
INACTIVITY_PENALTY_QUOTIENT == 4

----------------------------------------------------------------------------
(* Result and checked arithmetic (safe_arith) *)

Ok(v) == [err |-> "none", val |-> v]
Err(e) == [err |-> e, val |-> 0]
IsOk(r) == r.err = "none"

safe_add(a, b) == IF a + b > U64_MAX THEN Err("Overflow") ELSE Ok(a + b)
safe_sub(a, b) == IF b > a THEN Err("Overflow") ELSE Ok(a - b)
safe_mul(a, b) == IF a * b > U64_MAX THEN Err("Overflow") ELSE Ok(a * b)
safe_div(a, b) == IF b = 0 THEN Err("DivisionByZero") ELSE Ok(a \div b)
saturating_sub(a, b) == IF b > a THEN 0 ELSE a - b

integer_sqrt(n) == CHOOSE r \in 0..n : r * r <= n /\ (r + 1) * (r + 1) > n

Len0(f) == Cardinality(DOMAIN f)

----------------------------------------------------------------------------
(* Delta and AttestationDelta *)

DeltaDefault == [rewards |-> 0, penalties |-> 0]

\* Delta::reward
DeltaReward(delta, amount) ==
    LET r == safe_add(delta.rewards, amount)
    IN  IF IsOk(r) THEN Ok([delta EXCEPT !.rewards = r.val]) ELSE r

\* Delta::penalize
DeltaPenalize(delta, amount) ==
    LET r == safe_add(delta.penalties, amount)
    IN  IF IsOk(r) THEN Ok([delta EXCEPT !.penalties = r.val]) ELSE r

\* Delta::combine
DeltaCombine(delta, other) ==
    LET r == DeltaReward(delta, other.rewards)
    IN  IF IsOk(r) THEN DeltaPenalize(r.val, other.penalties) ELSE r

AttestationDeltaDefault ==
    [source_delta |-> DeltaDefault,
     target_delta |-> DeltaDefault,
     head_delta |-> DeltaDefault,
     inclusion_delay_delta |-> DeltaDefault,
     inactivity_penalty_delta |-> DeltaDefault]

RECURSIVE CombineAll(_, _)
CombineAll(result, ds) ==
    IF ds = <<>> THEN Ok(result)
    ELSE LET r == DeltaCombine(result, Head(ds))
         IN  IF IsOk(r) THEN CombineAll(r.val, Tail(ds)) ELSE r

\* mutant: the sums wrap around at the integer width
flatten_wrapping(d) ==
    Ok([rewards |-> (d.source_delta.rewards + d.target_delta.rewards
                     + d.head_delta.rewards + d.inclusion_delay_delta.rewards
                     + d.inactivity_penalty_delta.rewards) % (U64_MAX + 1),
        penalties |-> (d.source_delta.penalties + d.target_delta.penalties
                       + d.head_delta.penalties + d.inclusion_delay_delta.penalties
                       + d.inactivity_penalty_delta.penalties) % (U64_MAX + 1)])

\* AttestationDelta::flatten
flatten(d) ==
    CombineAll(DeltaDefault,
               <<d.source_delta, d.target_delta, d.head_delta,
                 d.inclusion_delay_delta, d.inactivity_penalty_delta>>)

----------------------------------------------------------------------------
(* The base reward and the total balances *)

\* SqrtTotalActiveBalance::new
SqrtTotalActiveBalance(total_active_balance) == integer_sqrt(total_active_balance)

\* get_base_reward
get_base_reward(effective_balance, sqrt_total_active_balance, sp) ==
    LET a == safe_mul(effective_balance, sp.base_reward_factor)
    IN  IF ~IsOk(a) THEN a
        ELSE LET b == safe_div(a.val, sqrt_total_active_balance)
             IN  IF ~IsOk(b) THEN b
                 ELSE safe_div(b.val, sp.base_rewards_per_epoch)

----------------------------------------------------------------------------
(* The component delta functions *)

\* mutant: the base reward is divided by the wrong constant
get_proposer_reward_per_epoch(base_reward, sp) ==
    safe_div(base_reward, sp.base_rewards_per_epoch)

\* get_proposer_reward
get_proposer_reward(base_reward, sp) ==
    safe_div(base_reward, sp.proposer_reward_quotient)

\* mutant: the balances are not reduced to increments before the multiplication
ProportionalRewardMultiplyFirst(base_reward, attesting_balance, total_balance, sp) ==
    LET reward_numerator == safe_mul(base_reward, attesting_balance)
    IN  IF ~IsOk(reward_numerator) THEN reward_numerator
        ELSE safe_div(reward_numerator.val, total_balance)

\* mutant: the total balance is not reduced to increments
ProportionalRewardRawTotal(base_reward, attesting_balance, total_balance, sp) ==
    LET q == safe_div(attesting_balance, sp.effective_balance_increment)
    IN  IF ~IsOk(q) THEN q
        ELSE LET reward_numerator == safe_mul(base_reward, q.val)
             IN  IF ~IsOk(reward_numerator) THEN reward_numerator
                 ELSE safe_div(reward_numerator.val, total_balance)

\* mutant: the attesting balance is not reduced to increments
ProportionalRewardRawAttesting(base_reward, attesting_balance, total_balance, sp) ==
    LET reward_numerator == safe_mul(base_reward, attesting_balance)
    IN  IF ~IsOk(reward_numerator) THEN reward_numerator
        ELSE LET t == safe_div(total_balance, sp.effective_balance_increment)
             IN  IF ~IsOk(t) THEN t
                 ELSE safe_div(reward_numerator.val, t.val)

\* the proportional reward of get_attestation_component_delta (lines 227-232)
ProportionalReward(base_reward, attesting_balance, total_balance, sp) ==
    LET q == safe_div(attesting_balance, sp.effective_balance_increment)
    IN  IF ~IsOk(q) THEN q
        ELSE LET reward_numerator == safe_mul(base_reward, q.val)
             IN  IF ~IsOk(reward_numerator) THEN reward_numerator
                 ELSE LET t == safe_div(total_balance, sp.effective_balance_increment)
                      IN  IF ~IsOk(t) THEN t
                          ELSE safe_div(reward_numerator.val, t.val)

\* mutant: a validator outside the attesting set is not penalized
get_attestation_component_delta_unpenalized(index_in_unslashed_attesting_indices, attesting_balance, total_balances, base_reward, finality_delay, sp) ==
    LET total_balance == total_balances.current_epoch
    IN  IF index_in_unslashed_attesting_indices
        THEN IF finality_delay > sp.min_epochs_to_inactivity_penalty
             THEN DeltaReward(DeltaDefault, base_reward)
             ELSE LET r == ProportionalReward(base_reward, attesting_balance,
                                              total_balance, sp)
                  IN  IF ~IsOk(r) THEN r ELSE DeltaReward(DeltaDefault, r.val)
        ELSE Ok(DeltaDefault)

\* mutant: the proportional reward is paid during a leak too
get_attestation_component_delta_always_proportional(index_in_unslashed_attesting_indices, attesting_balance, total_balances, base_reward, finality_delay, sp) ==
    LET total_balance == total_balances.current_epoch
    IN  IF index_in_unslashed_attesting_indices
        THEN LET r == ProportionalReward(base_reward, attesting_balance,
                                         total_balance, sp)
             IN  IF ~IsOk(r) THEN r ELSE DeltaReward(DeltaDefault, r.val)
        ELSE DeltaPenalize(DeltaDefault, base_reward)

\* get_attestation_component_delta
get_attestation_component_delta(index_in_unslashed_attesting_indices, attesting_balance, total_balances, base_reward, finality_delay, sp) ==
    LET total_balance == total_balances.current_epoch
    IN  IF index_in_unslashed_attesting_indices
        THEN IF finality_delay > sp.min_epochs_to_inactivity_penalty
             THEN DeltaReward(DeltaDefault, base_reward)
             ELSE LET r == ProportionalReward(base_reward, attesting_balance,
                                              total_balance, sp)
                  IN  IF ~IsOk(r) THEN r ELSE DeltaReward(DeltaDefault, r.val)
        ELSE DeltaPenalize(DeltaDefault, base_reward)

\* mutant: the raw attester flag decides membership, slashed or not
get_source_delta_raw_flag(validator, base_reward, total_balances, finality_delay, sp) ==
    get_attestation_component_delta(
        validator.is_previous_epoch_attester,
        total_balances.previous_epoch_attesters,
        total_balances, base_reward, finality_delay, sp)

get_source_delta(validator, base_reward, total_balances, finality_delay, sp) ==
    get_attestation_component_delta(
        validator.is_previous_epoch_attester /\ ~validator.is_slashed,
        total_balances.previous_epoch_attesters,
        total_balances, base_reward, finality_delay, sp)

get_target_delta(validator, base_reward, total_balances, finality_delay, sp) ==
    get_attestation_component_delta(
        validator.is_previous_epoch_target_attester /\ ~validator.is_slashed,
        total_balances.previous_epoch_target_attesters,
        total_balances, base_reward, finality_delay, sp)

\* mutant: the penalty of a non-member is applied to members as well
get_head_delta_penalty_unconditional(validator, base_reward, total_balances, finality_delay, sp) ==
    LET r == get_attestation_component_delta(
                 validator.is_previous_epoch_head_attester /\ ~validator.is_slashed,
                 total_balances.previous_epoch_head_attesters, total_balances,
                 base_reward, finality_delay, sp)
    IN  IF IsOk(r) /\ validator.is_previous_epoch_head_attester /\ ~validator.is_slashed
        THEN DeltaPenalize(r.val, base_reward)
        ELSE r

get_head_delta(validator, base_reward, total_balances, finality_delay, sp) ==
    get_attestation_component_delta(
        validator.is_previous_epoch_head_attester /\ ~validator.is_slashed,
        total_balances.previous_epoch_head_attesters,
        total_balances, base_reward, finality_delay, sp)

\* mutant: a delay of zero is taken to mean no delay
InclusionRewardZeroAsOne(max_attester_reward, delay) ==
    IF delay = 0 THEN Ok(max_attester_reward) ELSE safe_div(max_attester_reward, delay)

\* the attester's share of get_inclusion_delay_delta (line 309)
InclusionReward(max_attester_reward, delay) == safe_div(max_attester_reward, delay)

NoProposerDelta == [some |-> FALSE, proposer_index |-> 0, delta |-> DeltaDefault]

\* mutant: a missing inclusion record is taken for an attestation never included
get_inclusion_delay_delta_or_none(validator, base_reward, sp) ==
    IF validator.is_previous_epoch_attester /\ ~validator.is_slashed
    THEN IF ~validator.inclusion_info.some
         THEN Ok([delta |-> DeltaDefault, proposer_delta |-> NoProposerDelta])
         ELSE LET proposer_reward == get_proposer_reward(base_reward, sp)
              IN  IF ~IsOk(proposer_reward) THEN proposer_reward
                  ELSE LET proposer_delta == DeltaReward(DeltaDefault, proposer_reward.val)
                       IN  IF ~IsOk(proposer_delta) THEN proposer_delta
                           ELSE LET max_attester_reward ==
                                        safe_sub(base_reward, proposer_reward.val)
                                IN  IF ~IsOk(max_attester_reward) THEN max_attester_reward
                                    ELSE LET q == InclusionReward(max_attester_reward.val,
                                                                  validator.inclusion_info.delay)
                                         IN  IF ~IsOk(q) THEN q
                                             ELSE LET delta == DeltaReward(DeltaDefault, q.val)
                                                  IN  IF ~IsOk(delta) THEN delta
                                                      ELSE Ok([delta |-> delta.val,
                                                               proposer_delta |->
                                                                 [some |-> TRUE,
                                                                  proposer_index |->
                                                                    validator.inclusion_info.proposer_index,
                                                                  delta |-> proposer_delta.val]])
    ELSE Ok([delta |-> DeltaDefault, proposer_delta |-> NoProposerDelta])

\* get_inclusion_delay_delta: Ok's val is [delta, proposer_delta]
get_inclusion_delay_delta(validator, base_reward, sp) ==
    IF validator.is_previous_epoch_attester /\ ~validator.is_slashed
    THEN IF ~validator.inclusion_info.some
         THEN Err("ValidatorStatusesInconsistent")
         ELSE LET proposer_reward == get_proposer_reward(base_reward, sp)
              IN  IF ~IsOk(proposer_reward) THEN proposer_reward
                  ELSE LET proposer_delta == DeltaReward(DeltaDefault, proposer_reward.val)
                       IN  IF ~IsOk(proposer_delta) THEN proposer_delta
                           ELSE LET max_attester_reward ==
                                        safe_sub(base_reward, proposer_reward.val)
                                IN  IF ~IsOk(max_attester_reward) THEN max_attester_reward
                                    ELSE LET q == InclusionReward(max_attester_reward.val,
                                                                  validator.inclusion_info.delay)
                                         IN  IF ~IsOk(q) THEN q
                                             ELSE LET delta == DeltaReward(DeltaDefault, q.val)
                                                  IN  IF ~IsOk(delta) THEN delta
                                                      ELSE Ok([delta |-> delta.val,
                                                               proposer_delta |->
                                                                 [some |-> TRUE,
                                                                  proposer_index |->
                                                                    validator.inclusion_info.proposer_index,
                                                                  delta |-> proposer_delta.val]])
    ELSE Ok([delta |-> DeltaDefault, proposer_delta |-> NoProposerDelta])

\* mutant: the additional penalty looks at the target flag only
get_inactivity_penalty_delta_target_only(validator, base_reward, finality_delay, sp) ==
    IF finality_delay > sp.min_epochs_to_inactivity_penalty
    THEN LET m == safe_mul(sp.base_rewards_per_epoch, base_reward)
         IN  IF ~IsOk(m) THEN m
             ELSE LET p == get_proposer_reward(base_reward, sp)
                  IN  IF ~IsOk(p) THEN p
                      ELSE LET s == safe_sub(m.val, p.val)
                           IN  IF ~IsOk(s) THEN s
                               ELSE LET d1 == DeltaPenalize(DeltaDefault, s.val)
                                    IN  IF ~IsOk(d1) THEN d1
                                        ELSE IF ~validator.is_previous_epoch_target_attester
                                             THEN LET e == safe_mul(
                                                          validator.current_epoch_effective_balance,
                                                          finality_delay)
                                                  IN  IF ~IsOk(e) THEN e
                                                      ELSE LET x == safe_div(
                                                                   e.val,
                                                                   sp.inactivity_penalty_quotient)
                                                           IN  IF ~IsOk(x) THEN x
                                                               ELSE DeltaPenalize(d1.val, x.val)
                                             ELSE d1
    ELSE Ok(DeltaDefault)

\* mutant: the penalty cancels the source, target and head rewards only
get_inactivity_penalty_delta_three_components(validator, base_reward, finality_delay, sp) ==
    IF finality_delay > sp.min_epochs_to_inactivity_penalty
    THEN LET m == safe_mul(sp.base_rewards_per_epoch, base_reward)
         IN  IF ~IsOk(m) THEN m
             ELSE LET p == get_proposer_reward(base_reward, sp)
                  IN  IF ~IsOk(p) THEN p
                      ELSE LET s == safe_sub(m.val, base_reward)
                           IN  IF ~IsOk(s) THEN s
                               ELSE LET d1 == DeltaPenalize(DeltaDefault, s.val)
                                    IN  IF ~IsOk(d1) THEN d1
                                        ELSE IF validator.is_slashed
                                                \/ ~validator.is_previous_epoch_target_attester
                                             THEN LET e == safe_mul(
                                                          validator.current_epoch_effective_balance,
                                                          finality_delay)
                                                  IN  IF ~IsOk(e) THEN e
                                                      ELSE LET x == safe_div(
                                                                   e.val,
                                                                   sp.inactivity_penalty_quotient)
                                                           IN  IF ~IsOk(x) THEN x
                                                               ELSE DeltaPenalize(d1.val, x.val)
                                             ELSE d1
    ELSE Ok(DeltaDefault)

\* get_inactivity_penalty_delta
get_inactivity_penalty_delta(validator, base_reward, finality_delay, sp) ==
    IF finality_delay > sp.min_epochs_to_inactivity_penalty
    THEN LET m == safe_mul(sp.base_rewards_per_epoch, base_reward)
         IN  IF ~IsOk(m) THEN m
             ELSE LET p == get_proposer_reward(base_reward, sp)
                  IN  IF ~IsOk(p) THEN p
                      ELSE LET s == safe_sub(m.val, p.val)
                           IN  IF ~IsOk(s) THEN s
                               ELSE LET d1 == DeltaPenalize(DeltaDefault, s.val)
                                    IN  IF ~IsOk(d1) THEN d1
                                        ELSE IF validator.is_slashed
                                                \/ ~validator.is_previous_epoch_target_attester
                                             THEN LET e == safe_mul(
                                                          validator.current_epoch_effective_balance,
                                                          finality_delay)
                                                  IN  IF ~IsOk(e) THEN e
                                                      ELSE LET x == safe_div(
                                                                   e.val,
                                                                   sp.inactivity_penalty_quotient)
                                                           IN  IF ~IsOk(x) THEN x
                                                               ELSE DeltaPenalize(d1.val, x.val)
                                             ELSE d1
    ELSE Ok(DeltaDefault)

----------------------------------------------------------------------------
(* The rewards-and-penalties engine *)

NoSubset == [some |-> FALSE, indices |-> <<>>]
SomeSubset(validators_subset) == [some |-> TRUE, indices |-> validators_subset]

Contains(vec, x) == \E k \in 1..Len(vec) : vec[k] = x

\* the closure include_validator_delta of get_attestation_deltas
include_validator_delta(maybe_validators_subset, idx) ==
    IF ~maybe_validators_subset.some THEN TRUE
    ELSE Contains(maybe_validators_subset.indices, idx)

\* BeaconState::previous_epoch
previous_epoch(st) ==
    IF st.current_epoch > GENESIS_EPOCH THEN st.current_epoch - 1 ELSE st.current_epoch

\* mutant: the validator's own inclusion-delay delta replaces what its record holds
CombineOwnAssignInclusion(delta, source_delta, target_delta, head_delta, inclusion_delay_delta, inactivity_penalty_delta) ==
    LET s == DeltaCombine(delta.source_delta, source_delta)
        t == DeltaCombine(delta.target_delta, target_delta)
        h == DeltaCombine(delta.head_delta, head_delta)
        p == DeltaCombine(delta.inactivity_penalty_delta, inactivity_penalty_delta)
    IN  IF ~IsOk(s) THEN s
        ELSE IF ~IsOk(t) THEN t
        ELSE IF ~IsOk(h) THEN h
        ELSE IF ~IsOk(p) THEN p
        ELSE Ok([source_delta |-> s.val, target_delta |-> t.val, head_delta |-> h.val,
                 inclusion_delay_delta |-> inclusion_delay_delta,
                 inactivity_penalty_delta |-> p.val])

\* the five combine calls on deltas[index] (get_attestation_deltas, lines 184-190)
CombineOwn(delta, source_delta, target_delta, head_delta, inclusion_delay_delta, inactivity_penalty_delta) ==
    LET s == DeltaCombine(delta.source_delta, source_delta)
        t == DeltaCombine(delta.target_delta, target_delta)
        h == DeltaCombine(delta.head_delta, head_delta)
        i == DeltaCombine(delta.inclusion_delay_delta, inclusion_delay_delta)
        p == DeltaCombine(delta.inactivity_penalty_delta, inactivity_penalty_delta)
    IN  IF ~IsOk(s) THEN s
        ELSE IF ~IsOk(t) THEN t
        ELSE IF ~IsOk(h) THEN h
        ELSE IF ~IsOk(i) THEN i
        ELSE IF ~IsOk(p) THEN p
        ELSE Ok([source_delta |-> s.val, target_delta |-> t.val, head_delta |-> h.val,
                 inclusion_delay_delta |-> i.val, inactivity_penalty_delta |-> p.val])

\* mutant: the four components are computed before the subset is consulted
OwnDeltasComputedForAll(deltas, index, validator, base_reward, inclusion_delay_delta, total_balances, finality_delay, maybe_validators_subset, sp) ==
    LET source_delta ==
            get_source_delta(validator, base_reward, total_balances, finality_delay, sp)
        target_delta ==
            get_target_delta(validator, base_reward, total_balances, finality_delay, sp)
        head_delta ==
            get_head_delta(validator, base_reward, total_balances, finality_delay, sp)
        inactivity_penalty_delta ==
            get_inactivity_penalty_delta(validator, base_reward, finality_delay, sp)
    IN  IF ~IsOk(source_delta) THEN source_delta
        ELSE IF ~IsOk(target_delta) THEN target_delta
        ELSE IF ~IsOk(head_delta) THEN head_delta
        ELSE IF ~IsOk(inactivity_penalty_delta) THEN inactivity_penalty_delta
        ELSE IF ~include_validator_delta(maybe_validators_subset, index) THEN Ok(deltas)
        ELSE IF index \notin DOMAIN deltas THEN Err("DeltaOutOfBounds")
        ELSE LET c == CombineOwn(deltas[index], source_delta.val, target_delta.val,
                                 head_delta.val, inclusion_delay_delta,
                                 inactivity_penalty_delta.val)
             IN  IF ~IsOk(c) THEN c ELSE Ok([deltas EXCEPT ![index] = c.val])

\* lines 171-191: the validator's own five components, when it is included
OwnDeltas(deltas, index, validator, base_reward, inclusion_delay_delta, total_balances, finality_delay, maybe_validators_subset, sp) ==
    IF ~include_validator_delta(maybe_validators_subset, index) THEN Ok(deltas)
    ELSE LET source_delta ==
                 get_source_delta(validator, base_reward, total_balances, finality_delay, sp)
             target_delta ==
                 get_target_delta(validator, base_reward, total_balances, finality_delay, sp)
             head_delta ==
                 get_head_delta(validator, base_reward, total_balances, finality_delay, sp)
             inactivity_penalty_delta ==
                 get_inactivity_penalty_delta(validator, base_reward, finality_delay, sp)
         IN  IF ~IsOk(source_delta) THEN source_delta
             ELSE IF ~IsOk(target_delta) THEN target_delta
             ELSE IF ~IsOk(head_delta) THEN head_delta
             ELSE IF ~IsOk(inactivity_penalty_delta) THEN inactivity_penalty_delta
             ELSE IF index \notin DOMAIN deltas THEN Err("DeltaOutOfBounds")
             ELSE LET c == CombineOwn(deltas[index], source_delta.val, target_delta.val,
                                      head_delta.val, inclusion_delay_delta,
                                      inactivity_penalty_delta.val)
                  IN  IF ~IsOk(c) THEN c ELSE Ok([deltas EXCEPT ![index] = c.val])

\* mutant: the credit is folded in only when no subset is requested
ProposerCreditUnfilteredOnly(deltas, proposer_delta, proposer_reward, maybe_validators_subset) ==
    IF proposer_reward = "Include" /\ proposer_delta.some /\ ~maybe_validators_subset.some
    THEN IF proposer_delta.proposer_index \notin DOMAIN deltas
         THEN Err("ValidatorStatusesInconsistent")
         ELSE LET p == proposer_delta.proposer_index
                  c == DeltaCombine(deltas[p].inclusion_delay_delta, proposer_delta.delta)
              IN  IF ~IsOk(c) THEN c
                  ELSE Ok([deltas EXCEPT ![p].inclusion_delay_delta = c.val])
    ELSE Ok(deltas)

\* mutant: the credit replaces the proposer's inclusion-delay delta
ProposerCreditOverwrite(deltas, proposer_delta, proposer_reward, maybe_validators_subset) ==
    IF proposer_reward = "Include" /\ proposer_delta.some
       /\ include_validator_delta(maybe_validators_subset, proposer_delta.proposer_index)
    THEN IF proposer_delta.proposer_index \notin DOMAIN deltas
         THEN Err("ValidatorStatusesInconsistent")
         ELSE Ok([deltas EXCEPT ![proposer_delta.proposer_index].inclusion_delay_delta =
                                    proposer_delta.delta])
    ELSE Ok(deltas)

\* mutant: a proposer outside the delta table is passed over
ProposerCreditSkipOutOfRange(deltas, proposer_delta, proposer_reward, maybe_validators_subset) ==
    IF proposer_reward = "Include" /\ proposer_delta.some
       /\ include_validator_delta(maybe_validators_subset, proposer_delta.proposer_index)
       /\ proposer_delta.proposer_index \in DOMAIN deltas
    THEN LET p == proposer_delta.proposer_index
             c == DeltaCombine(deltas[p].inclusion_delay_delta, proposer_delta.delta)
         IN  IF ~IsOk(c) THEN c
             ELSE Ok([deltas EXCEPT ![p].inclusion_delay_delta = c.val])
    ELSE Ok(deltas)

\* mutant: the credit is folded in whatever the ProposerRewardCalculation
ProposerCreditAlways(deltas, proposer_delta, proposer_reward, maybe_validators_subset) ==
    IF proposer_delta.some
       /\ include_validator_delta(maybe_validators_subset, proposer_delta.proposer_index)
    THEN IF proposer_delta.proposer_index \notin DOMAIN deltas
         THEN Err("ValidatorStatusesInconsistent")
         ELSE LET p == proposer_delta.proposer_index
                  c == DeltaCombine(deltas[p].inclusion_delay_delta, proposer_delta.delta)
              IN  IF ~IsOk(c) THEN c
                  ELSE Ok([deltas EXCEPT ![p].inclusion_delay_delta = c.val])
    ELSE Ok(deltas)

\* lines 193-203: the proposer's credit
ProposerCredit(deltas, proposer_delta, proposer_reward, maybe_validators_subset) ==
    IF proposer_reward = "Include" /\ proposer_delta.some
       /\ include_validator_delta(maybe_validators_subset, proposer_delta.proposer_index)
    THEN IF proposer_delta.proposer_index \notin DOMAIN deltas
         THEN Err("ValidatorStatusesInconsistent")
         ELSE LET p == proposer_delta.proposer_index
                  c == DeltaCombine(deltas[p].inclusion_delay_delta, proposer_delta.delta)
              IN  IF ~IsOk(c) THEN c
                  ELSE Ok([deltas EXCEPT ![p].inclusion_delay_delta = c.val])
    ELSE Ok(deltas)

\* mutant: ineligible validators are not ignored
SkipValidatorNever(validator) == FALSE

\* lines 158-160: ineligible validators are ignored
SkipValidator(validator) == ~validator.is_eligible

\* one iteration of the loop of get_attestation_deltas (lines 153-204);
\* acc is [err, val (the deltas), calls (the indices whose base reward was computed)];
\* an error carries no deltas
LoopBody(acc, index, statuses, total_balances, finality_delay, proposer_reward, maybe_validators_subset, sp) ==
    LET validator == statuses[index]
    IN  IF SkipValidator(validator) THEN acc
        ELSE LET base_reward ==
                     get_base_reward(validator.current_epoch_effective_balance,
                                     SqrtTotalActiveBalance(total_balances.current_epoch), sp)
                 called == [acc EXCEPT !.calls = @ \cup {index}]
             IN  IF ~IsOk(base_reward) THEN [called EXCEPT !.err = base_reward.err, !.val = 0]
                 ELSE LET incl == get_inclusion_delay_delta(validator, base_reward.val, sp)
                      IN  IF ~IsOk(incl) THEN [called EXCEPT !.err = incl.err, !.val = 0]
                          ELSE LET own == OwnDeltas(acc.val, index, validator,
                                                    base_reward.val, incl.val.delta,
                                                    total_balances, finality_delay,
                                                    maybe_validators_subset, sp)
                               IN  IF ~IsOk(own) THEN [called EXCEPT !.err = own.err, !.val = 0]
                                   ELSE LET cr == ProposerCredit(own.val,
                                                                 incl.val.proposer_delta,
                                                                 proposer_reward,
                                                                 maybe_validators_subset)
                                        IN  IF ~IsOk(cr) THEN [called EXCEPT !.err = cr.err, !.val = 0]
                                            ELSE [called EXCEPT !.val = cr.val]

RECURSIVE Loop(_, _, _, _, _, _, _, _)
Loop(acc, index, statuses, total_balances, finality_delay, proposer_reward, maybe_validators_subset, sp) ==
    IF index >= Len0(statuses) \/ acc.err # "none" THEN acc
    ELSE Loop(LoopBody(acc, index, statuses, total_balances, finality_delay,
                       proposer_reward, maybe_validators_subset, sp),
              index + 1, statuses, total_balances, finality_delay, proposer_reward,
              maybe_validators_subset, sp)

\* mutant: the table lengths are compared before the loop
get_attestation_deltas_length_guard(st, vs, proposer_reward, maybe_validators_subset, sp) ==
    LET finality_delay == safe_sub(previous_epoch(st), st.finalized_checkpoint_epoch)
        deltas == [i \in 0..(st.validators - 1) |-> AttestationDeltaDefault]
    IN  IF Len0(vs.statuses) # Len0(st.balances) \/ Len0(vs.statuses) # st.validators
        THEN [err |-> "ValidatorStatusesInconsistent", val |-> 0, calls |-> {}]
        ELSE IF ~IsOk(finality_delay)
        THEN [err |-> finality_delay.err, val |-> 0, calls |-> {}]
        ELSE Loop([err |-> "none", val |-> deltas, calls |-> {}], 0,
                  vs.statuses, vs.total_balances, finality_delay.val,
                  proposer_reward, maybe_validators_subset, sp)

\* mutant: nothing is computed at the genesis epoch
get_attestation_deltas_genesis_guard(st, vs, proposer_reward, maybe_validators_subset, sp) ==
    LET finality_delay == safe_sub(previous_epoch(st), st.finalized_checkpoint_epoch)
        deltas == [i \in 0..(st.validators - 1) |-> AttestationDeltaDefault]
    IN  IF st.current_epoch = GENESIS_EPOCH
        THEN [err |-> "none", val |-> deltas, calls |-> {}]
        ELSE IF ~IsOk(finality_delay)
        THEN [err |-> finality_delay.err, val |-> 0, calls |-> {}]
        ELSE Loop([err |-> "none", val |-> deltas, calls |-> {}], 0,
                  vs.statuses, vs.total_balances, finality_delay.val,
                  proposer_reward, maybe_validators_subset, sp)

\* mutant: one delta record is allocated per status, not per validator
get_attestation_deltas_per_status(st, vs, proposer_reward, maybe_validators_subset, sp) ==
    LET finality_delay == safe_sub(previous_epoch(st), st.finalized_checkpoint_epoch)
        deltas == [i \in DOMAIN vs.statuses |-> AttestationDeltaDefault]
    IN  IF ~IsOk(finality_delay)
        THEN [err |-> finality_delay.err, val |-> 0, calls |-> {}]
        ELSE Loop([err |-> "none", val |-> deltas, calls |-> {}], 0,
                  vs.statuses, vs.total_balances, finality_delay.val,
                  proposer_reward, maybe_validators_subset, sp)

\* mutant: a finalized checkpoint ahead of the previous epoch gives a delay of 0
get_attestation_deltas_saturating_delay(st, vs, proposer_reward, maybe_validators_subset, sp) ==
    LET finality_delay == saturating_sub(previous_epoch(st), st.finalized_checkpoint_epoch)
        deltas == [i \in 0..(st.validators - 1) |-> AttestationDeltaDefault]
    IN  Loop([err |-> "none", val |-> deltas, calls |-> {}], 0,
             vs.statuses, vs.total_balances, finality_delay,
             proposer_reward, maybe_validators_subset, sp)

\* get_attestation_deltas: [err, val, calls]
get_attestation_deltas(st, vs, proposer_reward, maybe_validators_subset, sp) ==
    LET finality_delay == safe_sub(previous_epoch(st), st.finalized_checkpoint_epoch)
        deltas == [i \in 0..(st.validators - 1) |-> AttestationDeltaDefault]
    IN  IF ~IsOk(finality_delay)
        THEN [err |-> finality_delay.err, val |-> 0, calls |-> {}]
        ELSE Loop([err |-> "none", val |-> deltas, calls |-> {}], 0,
                  vs.statuses, vs.total_balances, finality_delay.val,
                  proposer_reward, maybe_validators_subset, sp)

\* get_attestation_deltas_all
get_attestation_deltas_all(st, vs, proposer_reward, sp) ==
    get_attestation_deltas(st, vs, proposer_reward, NoSubset, sp)

\* mutant: the pairs are collected in the order of the request
RECURSIVE FilterSubsetInRequestOrder(_, _, _)
FilterSubsetInRequestOrder(deltas, validators_subset, index) ==
    IF index >= Len(validators_subset) THEN <<>>
    ELSE (IF validators_subset[index + 1] \in DOMAIN deltas
          THEN << <<validators_subset[index + 1], deltas[validators_subset[index + 1]]>> >>
          ELSE <<>>)
         \o FilterSubsetInRequestOrder(deltas, validators_subset, index + 1)

\* the enumerate/filter/collect of get_attestation_deltas_subset (lines 115-121)
RECURSIVE FilterSubset(_, _, _)
FilterSubset(deltas, validators_subset, index) ==
    IF index >= Len0(deltas) THEN <<>>
    ELSE (IF Contains(validators_subset, index) THEN << <<index, deltas[index]>> >>
          ELSE <<>>)
         \o FilterSubset(deltas, validators_subset, index + 1)

\* lines 113-121: `?` on the computed deltas, then the filter
CollectSubset(r, validators_subset) ==
    IF r.err # "none" THEN r
    ELSE [r EXCEPT !.val = FilterSubset(r.val, validators_subset, 0)]

\* get_attestation_deltas_subset
get_attestation_deltas_subset(st, vs, proposer_reward, validators_subset, sp) ==
    CollectSubset(get_attestation_deltas(st, vs, proposer_reward,
                                         SomeSubset(validators_subset), sp),
                  validators_subset)

----------------------------------------------------------------------------
(* Balance application *)

\* increase_balance: Ok's val is the new balance table
increase_balance(balances, index, delta) ==
    IF index \notin DOMAIN balances THEN Err("BalancesOutOfBounds")
    ELSE LET r == safe_add(balances[index], delta)
         IN  IF ~IsOk(r) THEN r ELSE Ok([balances EXCEPT ![index] = r.val])

\* decrease_balance: the subtraction saturates at zero
decrease_balance(balances, index, delta) ==
    IF index \notin DOMAIN balances THEN Err("BalancesOutOfBounds")
    ELSE Ok([balances EXCEPT ![index] = saturating_sub(@, delta)])

\* mutant: the penalty is subtracted before the reward is added
ApplyDeltaPenaltyFirst(acc, i, delta) ==
    LET combined_delta == flatten(delta)
    IN  IF ~IsOk(combined_delta) THEN [acc EXCEPT !.err = combined_delta.err]
        ELSE LET dec == decrease_balance(acc.balances, i, combined_delta.val.penalties)
             IN  IF ~IsOk(dec) THEN [acc EXCEPT !.err = dec.err]
                 ELSE LET inc == increase_balance(dec.val, i, combined_delta.val.rewards)
                      IN  IF ~IsOk(inc) THEN [err |-> inc.err, balances |-> dec.val]
                          ELSE [acc EXCEPT !.balances = inc.val]

\* one iteration of the loop of process_rewards_and_penalties (lines 80-84);
\* acc is [err, balances]
ApplyDelta(acc, i, delta) ==
    LET combined_delta == flatten(delta)
    IN  IF ~IsOk(combined_delta) THEN [acc EXCEPT !.err = combined_delta.err]
        ELSE LET inc == increase_balance(acc.balances, i, combined_delta.val.rewards)
             IN  IF ~IsOk(inc) THEN [acc EXCEPT !.err = inc.err]
                 ELSE LET dec == decrease_balance(inc.val, i, combined_delta.val.penalties)
                      IN  IF ~IsOk(dec) THEN [err |-> dec.err, balances |-> inc.val]
                          ELSE [acc EXCEPT !.balances = dec.val]

RECURSIVE ApplyDeltas(_, _, _)
ApplyDeltas(acc, deltas, i) ==
    IF i >= Len0(deltas) \/ acc.err # "none" THEN acc
    ELSE ApplyDeltas(ApplyDelta(acc, i, deltas[i]), deltas, i + 1)

\* mutant: the genesis return is missing
AtGenesisEpochNever(st) == FALSE

\* line 60: nothing is rewarded at the genesis epoch
AtGenesisEpoch(st) == st.current_epoch = GENESIS_EPOCH

\* mutant: the guard compares the balance table only
TablesInconsistentBalancesOnly(st, vs) ==
    Len0(vs.statuses) # Len0(st.balances)

\* lines 65-66: the guard against an out-of-bounds balance update
TablesInconsistent(st, vs) ==
    \/ Len0(vs.statuses) # Len0(st.balances)
    \/ Len0(vs.statuses) # st.validators

\* mutant: an error of the delta computation is dropped and the call succeeds
ApplyAllErrorDropped(st, deltas) ==
    IF deltas.err # "none"
    THEN [err |-> "none", balances |-> st.balances, calls |-> deltas.calls]
    ELSE LET applied == ApplyDeltas([err |-> "none", balances |-> st.balances],
                                    deltas.val, 0)
         IN  [err |-> applied.err, balances |-> applied.balances,
              calls |-> deltas.calls]

\* mutant: a failed balance update restores the balance table
ApplyAllAtomic(st, deltas) ==
    IF deltas.err # "none"
    THEN [err |-> deltas.err, balances |-> st.balances, calls |-> deltas.calls]
    ELSE LET applied == ApplyDeltas([err |-> "none", balances |-> st.balances],
                                    deltas.val, 0)
         IN  [err |-> applied.err,
              balances |-> IF applied.err # "none" THEN st.balances
                           ELSE applied.balances,
              calls |-> deltas.calls]

\* lines 71-84: `?` on the computed deltas, then the balance update
ApplyAll(st, deltas) ==
    IF deltas.err # "none"
    THEN [err |-> deltas.err, balances |-> st.balances, calls |-> deltas.calls]
    ELSE LET applied == ApplyDeltas([err |-> "none", balances |-> st.balances],
                                    deltas.val, 0)
         IN  [err |-> applied.err, balances |-> applied.balances,
              calls |-> deltas.calls]

\* process_rewards_and_penalties: [err, balances, calls]
process_rewards_and_penalties(st, vs, sp) ==
    IF AtGenesisEpoch(st)
    THEN [err |-> "none", balances |-> st.balances, calls |-> {}]
    ELSE IF TablesInconsistent(st, vs)
    THEN [err |-> "ValidatorStatusesInconsistent", balances |-> st.balances, calls |-> {}]
    ELSE ApplyAll(st, get_attestation_deltas_all(st, vs, "Include", sp))

----------------------------------------------------------------------------
(* The inputs *)

ChainSpec ==
    [min_epochs_to_inactivity_penalty |-> MIN_EPOCHS_TO_INACTIVITY_PENALTY,
     effective_balance_increment |-> EFFECTIVE_BALANCE_INCREMENT,
     base_reward_factor |-> BASE_REWARD_FACTOR,
     base_rewards_per_epoch |-> BASE_REWARDS_PER_EPOCH,
     proposer_reward_quotient |-> PROPOSER_REWARD_QUOTIENT,
     inactivity_penalty_quotient |-> INACTIVITY_PENALTY_QUOTIENT]

NoInclusionInfo == [some |-> FALSE, delay |-> 0, proposer_index |-> 0]
InclusionInfo(delay, proposer_index) ==
    [some |-> TRUE, delay |-> delay, proposer_index |-> proposer_index]

ValidatorStatus(eligible, slashed, attester, target, head, balance, info) ==
    [is_eligible |-> eligible,
     is_slashed |-> slashed,
     is_previous_epoch_attester |-> attester,
     is_previous_epoch_target_attester |-> target,
     is_previous_epoch_head_attester |-> head,
     current_epoch_effective_balance |-> balance,
     inclusion_info |-> info]

EffectiveBalances == {EFFECTIVE_BALANCE_INCREMENT, 2 * EFFECTIVE_BALANCE_INCREMENT}

\* Inclusion records for a table of n validators: every delay (0 is the upstream
\* defect the division rejects) and every proposer (index n is out of range)
InclusionInfos(n) ==
    {NoInclusionInfo}
    \cup {InclusionInfo(d, 0) : d \in 0..MaxDelay}
    \cup {InclusionInfo(1, p) : p \in 0..n}

\* Every status the engine distinguishes.  Fields the code never reads for a
\* status are not varied: the inclusion record of a validator that is not an
\* unslashed attester, the flags of an ineligible validator.  The effective
\* balance is varied for the statuses with a regular inclusion record.
Statuses(n) ==
    {v \in [is_eligible : BOOLEAN,
            is_slashed : BOOLEAN,
            is_previous_epoch_attester : BOOLEAN,
            is_previous_epoch_target_attester : BOOLEAN,
            is_previous_epoch_head_attester : BOOLEAN,
            current_epoch_effective_balance : EffectiveBalances,
            inclusion_info : InclusionInfos(n)] :
        /\ ~v.is_previous_epoch_attester => v.inclusion_info = NoInclusionInfo
        /\ (v.is_previous_epoch_attester /\ (v.is_slashed \/ ~v.is_eligible))
              => v.inclusion_info \in {NoInclusionInfo, InclusionInfo(1, 0)}
        /\ ~v.is_eligible =>
              /\ v.is_previous_epoch_target_attester = v.is_previous_epoch_attester
              /\ v.is_previous_epoch_head_attester = v.is_previous_epoch_attester
        /\ v.current_epoch_effective_balance # EFFECTIVE_BALANCE_INCREMENT =>
              v.inclusion_info \in {NoInclusionInfo, InclusionInfo(1, 0)}}

Idle(balance) ==
    ValidatorStatus(TRUE, FALSE, FALSE, FALSE, FALSE, balance, NoInclusionInfo)
Attester(delay, proposer_index, balance) ==
    ValidatorStatus(TRUE, FALSE, TRUE, TRUE, TRUE, balance,
                    InclusionInfo(delay, proposer_index))
Ineligible ==
    ValidatorStatus(FALSE, FALSE, FALSE, FALSE, FALSE, EFFECTIVE_BALANCE_INCREMENT,
                    NoInclusionInfo)

\* Background populations of n validators: all attesting with the same proposer,
\* attesting with different delays, proposers and balances, and not attesting
Populations(n) ==
    {[i \in 0..(n - 1) |-> Attester(1, 0, EFFECTIVE_BALANCE_INCREMENT)],
     [i \in 0..(n - 1) |->
         Attester(1 + (i % 2), (i + 1) % n, (1 + (i % 2)) * EFFECTIVE_BALANCE_INCREMENT)],
     [i \in 0..(n - 1) |->
         IF i % 2 = 0 THEN Ineligible ELSE Idle(2 * EFFECTIVE_BALANCE_INCREMENT)]}

\* Status tables of n validators: a background population in which the first
\* or the last validator has an arbitrary status
StatusTables(n) ==
    {[t EXCEPT ![k] = v] : t \in Populations(n), k \in {0, n - 1}, v \in Statuses(n)}

\* TotalBalances: every getter returns at least one increment
TotalBalancesSet ==
    {[current_epoch |-> 4 * EFFECTIVE_BALANCE_INCREMENT,
      previous_epoch_attesters |-> 4 * EFFECTIVE_BALANCE_INCREMENT,
      previous_epoch_target_attesters |-> 4 * EFFECTIVE_BALANCE_INCREMENT,
      previous_epoch_head_attesters |-> 4 * EFFECTIVE_BALANCE_INCREMENT],
     [current_epoch |-> 4 * EFFECTIVE_BALANCE_INCREMENT,
      previous_epoch_attesters |-> 3 * EFFECTIVE_BALANCE_INCREMENT,
      previous_epoch_target_attesters |-> 2 * EFFECTIVE_BALANCE_INCREMENT,
      previous_epoch_head_attesters |-> EFFECTIVE_BALANCE_INCREMENT]}

\* Every status table with the totals of a fully attesting set; the background
\* populations also with those of a partly attesting set
ValidatorStatusesSet(n) ==
    {vs \in [statuses : StatusTables(n), total_balances : TotalBalancesSet] :
        \/ vs.total_balances.previous_epoch_head_attesters = vs.total_balances.current_epoch
        \/ vs.statuses \in Populations(n)}

\* (current epoch, finalized epoch): the genesis epoch, and a later epoch with
\* every finality delay from 0 up and with a finalized checkpoint ahead of the
\* previous epoch
Epochs ==
    {<<GENESIS_EPOCH, GENESIS_EPOCH>>} \cup {<<MaxEpoch, f>> : f \in 0..MaxEpoch}

\* Balance tables of n entries: ordinary balances, and nearly empty or nearly
\* full ones at the first and the last index
BalanceTables(n) ==
    {[i \in 0..(n - 1) |-> 1000],
     [i \in 0..(n - 1) |-> IF i = 0 THEN 1 ELSE 1000],
     [i \in 0..(n - 1) |-> IF i = n - 1 THEN U64_MAX - 1 ELSE 1000],
     [i \in 0..(n - 1) |-> IF i = 0 THEN U64_MAX - 1 ELSE 1]}

BeaconState(balances, validators, e) ==
    [balances |-> balances, validators |-> validators,
     current_epoch |-> e[1], finalized_checkpoint_epoch |-> e[2]]

\* States whose tables have the length of the status table
BeaconStates(n) ==
    {BeaconState(b, n, e) : b \in BalanceTables(n), e \in Epochs}

\* States read by the delta queries, which do not read the balances
QueryStates(n) ==
    {BeaconState([i \in 0..(n - 1) |-> 1000], n, e) : e \in Epochs}

\* States whose validator or balance table is one shorter or longer than the
\* status table of n validators
MismatchedStates(n) ==
    {BeaconState([i \in 0..(nb - 1) |-> 1000], nv, e) :
        nb \in (n - 1)..(n + 1), nv \in (n - 1)..(n + 1), e \in Epochs}

Lengths == 1..MaxValidators

ProposerRewardCalculation == {"Include", "Exclude"}

\* Requested subsets: empty, single, unordered, repeated, out of range
Subsets(n) ==
    {<<>>, <<n - 1>>, <<n - 1, 0, 0>>, <<n, 0>>}

----------------------------------------------------------------------------
(* The state machine: one call of one entry point *)

\* what a delta query returns; it takes the state by shared reference, so the
\* balance table after the call is the one before it
Returned(r, st) ==
    [err |-> r.err, val |-> r.val, calls |-> r.calls, balances |-> st.balances]

NumStatuses == Len0(validator_statuses.statuses)

\* The states a call is made with: tables as long as the status table, and,
\* for the background populations, tables of another length
ProcessStates ==
    BeaconStates(NumStatuses) \cup
    {m \in MismatchedStates(NumStatuses) :
        validator_statuses.statuses \in Populations(NumStatuses)}
DeltaStates ==
    QueryStates(NumStatuses) \cup
    {m \in MismatchedStates(NumStatuses) :
        validator_statuses.statuses \in Populations(NumStatuses)}

\* A chain specification under which one validator's rewards exceed the integer
\* width: the largest base reward factor whose product with one increment fits,
\* a single base reward per epoch, and the whole base reward to the proposer
LargeRewardSpec ==
    [ChainSpec EXCEPT !.base_reward_factor = U64_MAX \div EFFECTIVE_BALANCE_INCREMENT,
                      !.base_rewards_per_epoch = 1,
                      !.proposer_reward_quotient = 1]

\* Two full attesters of one increment each that are the whole active balance;
\* both were included by validator 1
LargeRewardStatuses ==
    [statuses |-> [i \in 0..1 |-> Attester(1, 1, EFFECTIVE_BALANCE_INCREMENT)],
     total_balances |->
         [current_epoch |-> EFFECTIVE_BALANCE_INCREMENT,
          previous_epoch_attesters |-> EFFECTIVE_BALANCE_INCREMENT,
          previous_epoch_target_attesters |-> EFFECTIVE_BALANCE_INCREMENT,
          previous_epoch_head_attesters |-> EFFECTIVE_BALANCE_INCREMENT]]

\* An effective balance, a whole number of increments, whose product with a
\* finality delay of 2 exceeds the integer width
HeavyBalance ==
    ((U64_MAX \div 2) \div EFFECTIVE_BALANCE_INCREMENT + 1) * EFFECTIVE_BALANCE_INCREMENT

\* A chain specification under which the base reward of such a balance is computed
HeavySpec == [ChainSpec EXCEPT !.base_reward_factor = 1]

\* An attester followed by a validator of that balance that did not attest
HeavyStatuses ==
    [statuses |->
         [i \in 0..1 |-> IF i = 0 THEN Attester(1, 0, 2 * EFFECTIVE_BALANCE_INCREMENT)
                         ELSE Idle(HeavyBalance)],
     total_balances |->
         [current_epoch |-> 4 * EFFECTIVE_BALANCE_INCREMENT,
          previous_epoch_attesters |-> 4 * EFFECTIVE_BALANCE_INCREMENT,
          previous_epoch_target_attesters |-> 4 * EFFECTIVE_BALANCE_INCREMENT,
          previous_epoch_head_attesters |-> 4 * EFFECTIVE_BALANCE_INCREMENT]]

\* The chain specifications a call is made with
ChainSpecs ==
    {ChainSpec}
    \cup (IF validator_statuses = LargeRewardStatuses THEN {LargeRewardSpec} ELSE {})
    \cup (IF validator_statuses = HeavyStatuses THEN {HeavySpec} ELSE {})

Init ==
    /\ validator_statuses \in
          UNION {ValidatorStatusesSet(n) : n \in Lengths}
          \cup {LargeRewardStatuses, HeavyStatuses}
    /\ call = [op |-> "none"]
    /\ ret = [err |-> "none"]

\* process_rewards_and_penalties(state, validator_statuses, spec)
ProcessRewardsAndPenalties ==
    /\ call.op = "none"
    /\ \E st \in ProcessStates, sp \in ChainSpecs :
          /\ call' = [op |-> "process_rewards_and_penalties", state |-> st,
                      spec |-> sp]
          /\ ret' = process_rewards_and_penalties(st, validator_statuses, sp)
    /\ UNCHANGED validator_statuses

\* get_attestation_deltas_all(state, validator_statuses, proposer_reward, spec)
GetAttestationDeltasAll ==
    /\ call.op = "none"
    /\ \E st \in DeltaStates, pr \in ProposerRewardCalculation, sp \in ChainSpecs :
          /\ call' = [op |-> "get_attestation_deltas_all", state |-> st,
                      proposer_reward |-> pr, spec |-> sp]
          /\ ret' = Returned(get_attestation_deltas_all(st, validator_statuses, pr,
                                                        sp), st)
    /\ UNCHANGED validator_statuses

\* get_attestation_deltas_subset(state, validator_statuses, proposer_reward,
\*                               validators_subset, spec)
GetAttestationDeltasSubset ==
    /\ call.op = "none"
    /\ \E st \in DeltaStates, pr \in ProposerRewardCalculation,
          sub \in Subsets(NumStatuses), sp \in ChainSpecs :
          /\ call' = [op |-> "get_attestation_deltas_subset", state |-> st,
                      proposer_reward |-> pr, validators_subset |-> sub,
                      spec |-> sp]
          /\ ret' = Returned(get_attestation_deltas_subset(st, validator_statuses, pr,
                                                           sub, sp), st)
    /\ UNCHANGED validator_statuses

Next ==
    \/ ProcessRewardsAndPenalties
    \/ GetAttestationDeltasAll
    \/ GetAttestationDeltasSubset

Spec == Init /\ [][Next]_vars

----------------------------------------------------------------------------
(* The component functions called on their own *)

BaseRewards == {0, 1, 7, 8, 9, 1000, U64_MAX}
ProposerRewardQuotients == {0, 1, 3, PROPOSER_REWARD_QUOTIENT}
Increments == {1, EFFECTIVE_BALANCE_INCREMENT}
AttestingBalances ==
    {0, EFFECTIVE_BALANCE_INCREMENT, 2 * EFFECTIVE_BALANCE_INCREMENT + 8,
     4 * EFFECTIVE_BALANCE_INCREMENT}
TotalActiveBalances ==
    {EFFECTIVE_BALANCE_INCREMENT, 2 * EFFECTIVE_BALANCE_INCREMENT + 8,
     4 * EFFECTIVE_BALANCE_INCREMENT}

InitUnit ==
    /\ validator_statuses = [statuses |-> <<>>, total_balances |-> <<>>]
    /\ call = [op |-> "none"]
    /\ ret = [err |-> "none"]

\* get_inclusion_delay_delta(validator, base_reward, spec)
GetInclusionDelayDelta ==
    /\ call.op = "none"
    /\ \E v \in Statuses(1), b \in BaseRewards, q \in ProposerRewardQuotients :
          LET sp == [ChainSpec EXCEPT !.proposer_reward_quotient = q]
          IN  /\ call' = [op |-> "get_inclusion_delay_delta", validator |-> v,
                          base_reward |-> b, spec |-> sp]
              /\ ret' = get_inclusion_delay_delta(v, b, sp)
    /\ UNCHANGED validator_statuses

\* get_attestation_component_delta(index_in_unslashed_attesting_indices,
\*     attesting_balance, total_balances, base_reward, finality_delay, spec)
GetAttestationComponentDelta ==
    /\ call.op = "none"
    /\ \E member \in BOOLEAN, a \in AttestingBalances, t \in TotalActiveBalances,
          b \in BaseRewards, fd \in 0..MaxEpoch, inc \in Increments :
          LET sp == [ChainSpec EXCEPT !.effective_balance_increment = inc]
              tb == [current_epoch |-> t, previous_epoch_attesters |-> a,
                     previous_epoch_target_attesters |-> a,
                     previous_epoch_head_attesters |-> a]
          IN  /\ call' = [op |-> "get_attestation_component_delta",
                          index_in_unslashed_attesting_indices |-> member,
                          attesting_balance |-> a, total_balances |-> tb,
                          base_reward |-> b, finality_delay |-> fd, spec |-> sp]
              /\ ret' = get_attestation_component_delta(member, a, tb, b, fd, sp)
    /\ UNCHANGED validator_statuses

InactivityPenaltyQuotients == {0, 3, INACTIVITY_PENALTY_QUOTIENT}

\* get_inactivity_penalty_delta(validator, base_reward, finality_delay, spec)
GetInactivityPenaltyDelta ==
    /\ call.op = "none"
    /\ \E v \in Statuses(1), b \in BaseRewards, fd \in 0..MaxEpoch,
          q \in ProposerRewardQuotients, ipq \in InactivityPenaltyQuotients :
          LET sp == [ChainSpec EXCEPT !.proposer_reward_quotient = q,
                                      !.inactivity_penalty_quotient = ipq]
          IN  /\ call' = [op |-> "get_inactivity_penalty_delta", validator |-> v,
                          base_reward |-> b, finality_delay |-> fd, spec |-> sp]
              /\ ret' = get_inactivity_penalty_delta(v, b, fd, sp)
    /\ UNCHANGED validator_statuses

\* Deltas with small and nearly full rewards and penalties
Deltas ==
    {[rewards |-> 0, penalties |-> 0], [rewards |-> 1, penalties |-> 0],
     [rewards |-> 0, penalties |-> 1], [rewards |-> 1, penalties |-> 1],
     [rewards |-> U64_MAX - 1, penalties |-> 0],
     [rewards |-> 0, penalties |-> U64_MAX - 1]}

\* AttestationDelta::flatten(self)
Flatten ==
    /\ call.op = "none"
    /\ \E s \in Deltas, t \in Deltas, h \in Deltas, i \in Deltas, p \in Deltas :
          LET d == [source_delta |-> s, target_delta |-> t, head_delta |-> h,
                    inclusion_delay_delta |-> i, inactivity_penalty_delta |-> p]
          IN  /\ call' = [op |-> "flatten", self |-> d]
              /\ ret' = flatten(d)
    /\ UNCHANGED validator_statuses

NextUnit ==
    \/ GetInclusionDelayDelta
    \/ GetAttestationComponentDelta
    \/ GetInactivityPenaltyDelta
    \/ Flatten

UnitSpec == InitUnit /\ [][NextUnit]_vars

----------------------------------------------------------------------------
(* Properties *)

Processed == call.op = "process_rewards_and_penalties"
QueriedAll == call.op = "get_attestation_deltas_all"
QueriedSubset == call.op = "get_attestation_deltas_subset"
Called == call.op # "none"

statuses == validator_statuses.statuses
total_balances == validator_statuses.total_balances

Genesis == call.state.current_epoch = GENESIS_EPOCH
BalancesUnchanged == ret.balances = call.state.balances

\* the three tables do not all have the same length
LengthsDiffer ==
    ~(/\ Len0(statuses) = Len0(call.state.balances)
      /\ Len0(statuses) = call.state.validators)

\* C1: at the genesis epoch process_rewards_and_penalties returns Ok and leaves
\* every balance unchanged, whatever the statuses and total balances.
C1_GenesisNoMutation ==
    (Processed /\ Genesis) => (ret.err = "none" /\ BalancesUnchanged)

\* C1 witness: a genesis call on consistent tables in which an unslashed
\* attester with a valid inclusion record would otherwise be rewarded.
C1_Witness ==
    /\ Processed /\ Genesis /\ ~LengthsDiffer
    /\ call.state.finalized_checkpoint_epoch = 0
    /\ \E i \in DOMAIN statuses :
          statuses[i] = Attester(1, 0, EFFECTIVE_BALANCE_INCREMENT)
    /\ ret.err = "none" /\ BalancesUnchanged

\* C2 as stated: whatever the current epoch, tables of unequal length make
\* process_rewards_and_penalties return ValidatorStatusesInconsistent and leave
\* the balances unchanged.
C2_Original ==
    (Processed /\ LengthsDiffer) =>
        (ret.err = "ValidatorStatusesInconsistent" /\ BalancesUnchanged)

\* C2 amended: with tables of unequal length process_rewards_and_penalties leaves
\* the balances unchanged and returns ValidatorStatusesInconsistent at every
\* epoch but the genesis epoch, where it returns Ok before the lengths are read.
C2_MismatchIsInconsistent ==
    (Processed /\ LengthsDiffer) =>
        /\ BalancesUnchanged
        /\ ret.err = (IF Genesis THEN "none" ELSE "ValidatorStatusesInconsistent")

\* C2 witness: past genesis, one balance entry fewer than validators and
\* statuses; the call returns the inconsistency error.
C2_Witness ==
    /\ Processed /\ ~Genesis
    /\ call.state.validators = Len0(statuses)
    /\ Len0(call.state.balances) = Len0(statuses) - 1
    /\ ret.err = "ValidatorStatusesInconsistent" /\ BalancesUnchanged

----------------------------------------------------------------------------
(* Quantities the properties are stated in *)

Included == call.proposer_reward = "Include"

\* B_i: the base reward of validator i
BaseReward(i) ==
    get_base_reward(statuses[i].current_epoch_effective_balance,
                    SqrtTotalActiveBalance(total_balances.current_epoch), call.spec).val

\* an eligible unslashed previous-epoch attester
UnslashedAttester(v) ==
    v.is_eligible /\ v.is_previous_epoch_attester /\ ~v.is_slashed

\* floor(B_v / proposer_reward_quotient)
CreditOf(v) == BaseReward(v) \div call.spec.proposer_reward_quotient

\* the proposer credits that the validators of the set from route to p
RECURSIVE CreditsFrom(_, _)
CreditsFrom(from, p) ==
    IF from = {} THEN 0
    ELSE LET v == CHOOSE x \in from : TRUE
         IN  (IF UnslashedAttester(statuses[v])
                 /\ statuses[v].inclusion_info.proposer_index = p
              THEN CreditOf(v) ELSE 0)
             + CreditsFrom(from \ {v}, p)

CreditsTo(p) == CreditsFrom(DOMAIN statuses, p)

\* p's own attester inclusion reward
OwnInclusionReward(p) ==
    IF p \in DOMAIN statuses /\ UnslashedAttester(statuses[p])
    THEN (BaseReward(p) - CreditOf(p)) \div statuses[p].inclusion_info.delay
    ELSE 0

\* R and P of a delta record: the sums of the five fields
Rewards(d) ==
    d.source_delta.rewards + d.target_delta.rewards + d.head_delta.rewards
    + d.inclusion_delay_delta.rewards + d.inactivity_penalty_delta.rewards
Penalties(d) ==
    d.source_delta.penalties + d.target_delta.penalties + d.head_delta.penalties
    + d.inclusion_delay_delta.penalties + d.inactivity_penalty_delta.penalties

\* the full delta sequence for the arguments of the call
AllDeltas(proposer_reward) ==
    get_attestation_deltas_all(call.state, validator_statuses, proposer_reward, call.spec)

Ineligibles == {i \in DOMAIN statuses : ~statuses[i].is_eligible}

----------------------------------------------------------------------------

\* C3 as stated: in the result of get_attestation_deltas_all every ineligible
\* validator has a flattened delta of zero rewards and zero penalties, whatever
\* the other validators' statuses, and no base reward is computed for it.
C3_Original ==
    (QueriedAll /\ ret.err = "none") =>
        \A i \in Ineligibles \cap DOMAIN ret.val :
            /\ Rewards(ret.val[i]) = 0
            /\ Penalties(ret.val[i]) = 0
            /\ i \notin ret.calls

\* C3 amended: no base reward is computed for an ineligible validator, its
\* source, target, head and inactivity-penalty deltas are zero and it has no
\* penalties; its only rewards are the proposer credits that eligible unslashed
\* attesters naming it as their proposer route to it (none with Exclude), and
\* process_rewards_and_penalties adds exactly those credits to its balance.
C3_IneligibleOnlyCredited ==
    /\ Called => \A i \in Ineligibles : i \notin ret.calls
    /\ (QueriedAll /\ ret.err = "none") =>
          \A i \in Ineligibles \cap DOMAIN ret.val :
              /\ ret.val[i].source_delta = DeltaDefault
              /\ ret.val[i].target_delta = DeltaDefault
              /\ ret.val[i].head_delta = DeltaDefault
              /\ ret.val[i].inactivity_penalty_delta = DeltaDefault
              /\ Penalties(ret.val[i]) = 0
              /\ Rewards(ret.val[i]) = (IF Included THEN CreditsTo(i) ELSE 0)
    /\ (Processed /\ ~Genesis /\ ret.err = "none") =>
          \A i \in Ineligibles :
              ret.balances[i] = call.state.balances[i] + CreditsTo(i)

\* C3 witness: a full computation in which an ineligible validator is the
\* recorded proposer of an attester and so ends with a non-zero reward.
C3_Witness ==
    /\ QueriedAll /\ ret.err = "none" /\ Included
    /\ \E i \in Ineligibles \cap DOMAIN ret.val :
          /\ CreditsTo(i) > 0
          /\ Rewards(ret.val[i]) = CreditsTo(i)
          /\ i \notin ret.calls

\* C4: after a successful process_rewards_and_penalties past genesis every
\* balance is max(0, old + R - P): the reward is added first, overflow-checked,
\* and the penalty is subtracted saturating at zero, never failing.
C4_BalanceUpdate ==
    (Processed /\ ~Genesis /\ ~LengthsDiffer) =>
        \A all \in {AllDeltas("Include")} :
            all.err = "none" =>
               /\ (ret.err = "none") <=>
                      \A i \in DOMAIN all.val :
                          call.state.balances[i] + Rewards(all.val[i]) <= U64_MAX
               /\ ret.err = "none" =>
                     \A i \in DOMAIN all.val :
                         LET net == call.state.balances[i] + Rewards(all.val[i])
                                    - Penalties(all.val[i])
                         IN  ret.balances[i] = (IF net < 0 THEN 0 ELSE net)

\* C4 witness: a successful call in which one validator's penalty exceeds its
\* balance plus reward and its balance becomes 0, while another balance grows.
C4_Witness ==
    /\ Processed /\ ~Genesis /\ ret.err = "none"
    /\ \E i \in DOMAIN ret.balances :
          LET d == AllDeltas("Include").val[i]
          IN  /\ Rewards(d) > 0
              /\ Penalties(d) > call.state.balances[i] + Rewards(d)
              /\ ret.balances[i] = 0
    /\ \E j \in DOMAIN ret.balances : ret.balances[j] > call.state.balances[j]

\* C5: when get_attestation_deltas_all succeeds, get_attestation_deltas_subset
\* on the same inputs succeeds and returns, once each, exactly the pairs
\* (i, d_i) for the requested indices i, d_i being entry i of the full result.
C5_SubsetMatchesAll ==
    QueriedSubset =>
        \A all \in {AllDeltas(call.proposer_reward)} :
            all.err = "none" =>
               LET requested == {call.validators_subset[k] :
                                    k \in 1..Len(call.validators_subset)}
                                \cap DOMAIN all.val
               IN  /\ ret.err = "none"
                   /\ Len(ret.val) = Cardinality(requested)
                   /\ \A i \in requested :
                         \E k \in 1..Len(ret.val) : ret.val[k] = <<i, all.val[i]>>

\* C5 witness: a subset query whose result holds a proposer credit that comes
\* from an attester outside the requested subset.
C5_Witness ==
    /\ QueriedSubset /\ ret.err = "none" /\ Included
    /\ AllDeltas("Include").err = "none"
    /\ \E k \in 1..Len(ret.val) :
          LET p == ret.val[k][1]
          IN  /\ ret.val[k][2] = AllDeltas("Include").val[p]
              /\ \E v \in DOMAIN statuses :
                    /\ ~Contains(call.validators_subset, v)
                    /\ UnslashedAttester(statuses[v])
                    /\ statuses[v].inclusion_info.proposer_index = p
                    /\ CreditOf(v) > 0
                    /\ ret.val[k][2].inclusion_delay_delta.rewards
                          = OwnInclusionReward(p) + CreditsTo(p)

\* C6 as stated: in every successful get_attestation_deltas_all the rewards of
\* p's inclusion_delay_delta are p's own inclusion reward plus the credits of
\* the attesters whose recorded proposer is p.
C6_Original ==
    (QueriedAll /\ ret.err = "none") =>
        \A p \in DOMAIN ret.val :
            ret.val[p].inclusion_delay_delta.rewards
                = OwnInclusionReward(p) + CreditsTo(p)

\* C6 amended: the same, for calls made with ProposerRewardCalculation::Include;
\* with Exclude no credit is folded in.
C6_ProposerCreditFolded ==
    (QueriedAll /\ ret.err = "none" /\ Included) =>
        \A p \in DOMAIN ret.val :
            ret.val[p].inclusion_delay_delta.rewards
                = OwnInclusionReward(p) + CreditsTo(p)

\* C6 witness: an eligible proposer that did not attest and is credited for
\* another validator's attestation.
C6_Witness ==
    /\ QueriedAll /\ ret.err = "none" /\ Included
    /\ \E p \in DOMAIN ret.val :
          /\ p \in DOMAIN statuses
          /\ statuses[p].is_eligible /\ ~statuses[p].is_previous_epoch_attester
          /\ CreditsTo(p) > 0
          /\ ret.val[p].inclusion_delay_delta.rewards = CreditsTo(p)

\* an eligible unslashed attester whose recorded inclusion delay is 0
ZeroDelay(v) ==
    /\ UnslashedAttester(statuses[v])
    /\ statuses[v].inclusion_info.some
    /\ statuses[v].inclusion_info.delay = 0

ZeroDelays == {v \in DOMAIN statuses : ZeroDelay(v)}

\* nothing fails before the first validator with a zero delay is reached: the
\* finality delay does not underflow, process reaches the delta computation, and
\* every eligible validator below has a delta record and, if it is an unslashed
\* attester, an inclusion record and a proposer inside the validator table
NothingFailsBefore(v) ==
    /\ previous_epoch(call.state) >= call.state.finalized_checkpoint_epoch
    /\ Processed => (~Genesis /\ ~LengthsDiffer)
    /\ \A j \in DOMAIN statuses :
          (j < v /\ statuses[j].is_eligible) =>
              /\ j < call.state.validators
              /\ UnslashedAttester(statuses[j]) =>
                    /\ statuses[j].inclusion_info.some
                    /\ statuses[j].inclusion_info.proposer_index < call.state.validators

\* C7 as stated: with an eligible unslashed attester of inclusion delay 0,
\* get_attestation_deltas_all, get_attestation_deltas_subset and
\* process_rewards_and_penalties return the division-by-zero error and no
\* balance is mutated.
C7_Original ==
    (Called /\ ZeroDelays # {}) =>
        (ret.err = "DivisionByZero" /\ BalancesUnchanged)

\* C7 amended: for such an attester get_inclusion_delay_delta returns the
\* division-by-zero error; the two delta queries, and process past the genesis
\* epoch, return an error and never a result, and no balance is mutated. The
\* error returned is the division by zero unless another failure is met first
\* (finality-delay underflow, unequal table lengths in process, an inconsistency
\* at a lower index); at the genesis epoch process returns Ok, computing nothing.
C7_ZeroDelayIsAnError ==
    (Called /\ ZeroDelays # {}) =>
        /\ \A v \in ZeroDelays :
              get_inclusion_delay_delta(statuses[v], BaseReward(v), call.spec).err
                  = "DivisionByZero"
        /\ BalancesUnchanged
        /\ (ret.err = "none") <=> (Processed /\ Genesis)
        /\ (\E v \in ZeroDelays :
               (\A w \in ZeroDelays : v <= w) /\ NothingFailsBefore(v))
              => ret.err = "DivisionByZero"

\* C7 witness: past genesis, a validator that would be rewarded is followed by
\* an attester with delay 0; process returns the division-by-zero error and the
\* balances are as before.
C7_Witness ==
    /\ Processed /\ ~Genesis /\ ~LengthsDiffer
    /\ \E v \in ZeroDelays :
          \E j \in DOMAIN statuses :
              j < v /\ UnslashedAttester(statuses[j]) /\ NothingFailsBefore(v)
    /\ ret.err = "DivisionByZero" /\ BalancesUnchanged

\* C8: for an unslashed previous-epoch attester with base reward B, delay
\* d >= 1 and quotient Q >= 1, get_inclusion_delay_delta yields the proposer
\* credit floor(B / Q) and the attester reward floor((B - floor(B / Q)) / d),
\* which together never exceed B; for a slashed validator or one that did not
\* attest the delta is zero and there is no credit.
C8_InclusionDelaySplit ==
    (call.op = "get_inclusion_delay_delta") =>
        LET v == call.validator
            B == call.base_reward
            Q == call.spec.proposer_reward_quotient
            d == v.inclusion_info.delay
        IN  IF v.is_previous_epoch_attester /\ ~v.is_slashed
            THEN (v.inclusion_info.some /\ d >= 1 /\ Q >= 1) =>
                    /\ ret.err = "none"
                    /\ ret.val.proposer_delta =
                          [some |-> TRUE,
                           proposer_index |-> v.inclusion_info.proposer_index,
                           delta |-> [rewards |-> B \div Q, penalties |-> 0]]
                    /\ ret.val.delta =
                          [rewards |-> (B - (B \div Q)) \div d, penalties |-> 0]
                    /\ ret.val.delta.rewards + ret.val.proposer_delta.delta.rewards <= B
            ELSE /\ ret.err = "none"
                 /\ ret.val.delta = DeltaDefault
                 /\ ~ret.val.proposer_delta.some

\* C8 witness: B = 1000, Q = 8, d = 1 gives the proposer 125 and the attester 875.
C8_Witness ==
    /\ call.op = "get_inclusion_delay_delta"
    /\ call.validator.is_previous_epoch_attester /\ ~call.validator.is_slashed
    /\ call.validator.inclusion_info.some /\ call.validator.inclusion_info.delay = 1
    /\ call.base_reward = 1000 /\ call.spec.proposer_reward_quotient = 8
    /\ ret.err = "none"
    /\ ret.val.proposer_delta.delta.rewards = 125
    /\ ret.val.delta.rewards = 875

\* C9: get_attestation_component_delta gives a member of the unslashed attesting
\* set the full base reward when finality_delay exceeds the threshold, and
\* floor(base_reward * floor(attesting / increment) / floor(total / increment))
\* when it does not (equality included), with no penalty; a non-member gets no
\* reward and a penalty of base_reward. The multiplication is overflow-checked.
C9_ComponentDelta ==
    (call.op = "get_attestation_component_delta") =>
        LET B == call.base_reward
            inc == call.spec.effective_balance_increment
            numerator == B * (call.attesting_balance \div inc)
        IN  IF ~call.index_in_unslashed_attesting_indices
            THEN ret.err = "none" /\ ret.val = [rewards |-> 0, penalties |-> B]
            ELSE IF call.finality_delay > call.spec.min_epochs_to_inactivity_penalty
            THEN ret.err = "none" /\ ret.val = [rewards |-> B, penalties |-> 0]
            ELSE IF numerator > U64_MAX
            THEN ret.err = "Overflow"
            ELSE /\ ret.err = "none"
                 /\ ret.val =
                       [rewards |-> numerator
                                    \div (call.total_balances.current_epoch \div inc),
                        penalties |-> 0]

\* C9 witness: a member at a finality delay equal to the threshold, with
\* balances that are not multiples of the increment, so that the order of the
\* divisions shows in the reward: 1000 * floor(40 / 16) / floor(64 / 16) = 500.
C9_Witness ==
    /\ call.op = "get_attestation_component_delta"
    /\ call.index_in_unslashed_attesting_indices
    /\ call.finality_delay = call.spec.min_epochs_to_inactivity_penalty
    /\ call.base_reward = 1000
    /\ call.spec.effective_balance_increment = 16
    /\ call.attesting_balance = 40
    /\ call.total_balances.current_epoch = 64
    /\ ret.err = "none"
    /\ ret.val = [rewards |-> 500, penalties |-> 0]

\* the finality delay of the state the call was made with
FinalityDelay ==
    previous_epoch(call.state) - call.state.finalized_checkpoint_epoch

\* C10: outside a leak, when the attesting balance of each component equals
\* the total active balance, every eligible validator that is an unslashed
\* source, target and head attester has source, target and head deltas with
\* rewards equal to its base reward and no penalties.
C10_FullParticipation ==
    (/\ QueriedAll /\ ret.err = "none"
     /\ FinalityDelay <= call.spec.min_epochs_to_inactivity_penalty
     /\ total_balances.current_epoch >= call.spec.effective_balance_increment
     /\ total_balances.previous_epoch_attesters = total_balances.current_epoch
     /\ total_balances.previous_epoch_target_attesters = total_balances.current_epoch
     /\ total_balances.previous_epoch_head_attesters = total_balances.current_epoch)
    => \A i \in DOMAIN statuses \cap DOMAIN ret.val :
          (/\ UnslashedAttester(statuses[i])
           /\ statuses[i].is_previous_epoch_target_attester
           /\ statuses[i].is_previous_epoch_head_attester)
          => LET full == [rewards |-> BaseReward(i), penalties |-> 0]
             IN  /\ ret.val[i].source_delta = full
                 /\ ret.val[i].target_delta = full
                 /\ ret.val[i].head_delta = full

\* C10 witness: such a validator, at a finality delay equal to the threshold,
\* with a positive base reward.
C10_Witness ==
    /\ QueriedAll /\ ret.err = "none"
    /\ FinalityDelay = call.spec.min_epochs_to_inactivity_penalty
    /\ total_balances.previous_epoch_attesters = total_balances.current_epoch
    /\ total_balances.previous_epoch_target_attesters = total_balances.current_epoch
    /\ total_balances.previous_epoch_head_attesters = total_balances.current_epoch
    /\ \E i \in DOMAIN statuses \cap DOMAIN ret.val :
          /\ UnslashedAttester(statuses[i])
          /\ statuses[i].is_previous_epoch_target_attester
          /\ statuses[i].is_previous_epoch_head_attester
          /\ BaseReward(i) > 0
          /\ ret.val[i].source_delta = [rewards |-> BaseReward(i), penalties |-> 0]
          /\ ret.val[i].target_delta = ret.val[i].source_delta
          /\ ret.val[i].head_delta = ret.val[i].source_delta

----------------------------------------------------------------------------

\* a validator with none of the previous-epoch attester flags set
NonAttester(v) ==
    /\ ~v.is_previous_epoch_attester
    /\ ~v.is_previous_epoch_target_attester
    /\ ~v.is_previous_epoch_head_attester

\* the validators that did not attest and are the recorded proposer of another
\* validator's attestation
NonAttestingProposers ==
    {p \in DOMAIN statuses :
        /\ NonAttester(statuses[p])
        /\ \E v \in DOMAIN statuses \ {p} :
              /\ statuses[v].is_previous_epoch_attester
              /\ statuses[v].inclusion_info.some
              /\ statuses[v].inclusion_info.proposer_index = p}

NoLeak == FinalityDelay <= call.spec.min_epochs_to_inactivity_penalty

\* C11 as stated: outside a leak, in a full computation, a validator that did
\* not attest and is the recorded proposer of another validator's attestation
\* has source, target, head and inactivity-penalty deltas of zero rewards and
\* zero penalties.
C11_Original ==
    (QueriedAll /\ ret.err = "none" /\ NoLeak) =>
        \A p \in NonAttestingProposers \cap DOMAIN ret.val :
            /\ ret.val[p].source_delta = DeltaDefault
            /\ ret.val[p].target_delta = DeltaDefault
            /\ ret.val[p].head_delta = DeltaDefault
            /\ ret.val[p].inactivity_penalty_delta = DeltaDefault

\* C11 amended: such a validator's only reward is the proposer credit, in the
\* rewards of its inclusion_delay_delta (nothing with Exclude); its
\* inactivity-penalty delta is zero and its inclusion_delay_delta has no
\* penalty; its source, target and head deltas have no rewards, and each has a
\* penalty of its base reward when the validator is eligible, of zero when it
\* is not.
C11_NonAttestingProposer ==
    (QueriedAll /\ ret.err = "none" /\ NoLeak) =>
        \A p \in NonAttestingProposers \cap DOMAIN ret.val :
            LET missed == [rewards |-> 0,
                           penalties |-> IF statuses[p].is_eligible
                                         THEN BaseReward(p) ELSE 0]
            IN  /\ ret.val[p].source_delta = missed
                /\ ret.val[p].target_delta = missed
                /\ ret.val[p].head_delta = missed
                /\ ret.val[p].inactivity_penalty_delta = DeltaDefault
                /\ ret.val[p].inclusion_delay_delta =
                      [rewards |-> IF Included THEN CreditsTo(p) ELSE 0,
                       penalties |-> 0]

\* C11 witness: an eligible validator that did not attest is credited for
\* another validator's attestation and is penalized its base reward three times.
C11_Witness ==
    /\ QueriedAll /\ ret.err = "none" /\ NoLeak /\ Included
    /\ \E p \in NonAttestingProposers \cap DOMAIN ret.val :
          /\ statuses[p].is_eligible
          /\ CreditsTo(p) > 0
          /\ BaseReward(p) > 0
          /\ ret.val[p].inclusion_delay_delta.rewards = CreditsTo(p)
          /\ Penalties(ret.val[p]) = 3 * BaseReward(p)

----------------------------------------------------------------------------

\* the eligible unslashed attesters whose recorded proposer is outside the
\* validator table
BadProposers ==
    {v \in DOMAIN statuses :
        /\ UnslashedAttester(statuses[v])
        /\ statuses[v].inclusion_info.some
        /\ statuses[v].inclusion_info.proposer_index >= call.state.validators}

\* the call looks such a proposer up: process past genesis, a full computation
\* with Include, a subset computation with Include that requests the index
LooksUpBadProposer ==
    \/ Processed /\ ~Genesis
    \/ QueriedAll /\ Included
    \/ /\ QueriedSubset /\ Included
       /\ \E v \in BadProposers :
             Contains(call.validators_subset, statuses[v].inclusion_info.proposer_index)

\* nothing else is wrong with the inputs: the finality delay does not
\* underflow, there is a delta record per status, and every unslashed attester
\* has an inclusion record with a delay of at least 1
NoOtherDefect ==
    /\ previous_epoch(call.state) >= call.state.finalized_checkpoint_epoch
    /\ call.state.validators = Len0(statuses)
    /\ \A j \in DOMAIN statuses :
          UnslashedAttester(statuses[j]) =>
              /\ statuses[j].inclusion_info.some
              /\ statuses[j].inclusion_info.delay >= 1

\* C12 as stated: with an eligible unslashed attester whose proposer_index is
\* outside the validator table, get_attestation_deltas_all,
\* get_attestation_deltas_subset (any subset) and process_rewards_and_penalties
\* return the inconsistency error and no balance is changed.
C12_Original ==
    (Called /\ BadProposers # {}) =>
        (ret.err = "ValidatorStatusesInconsistent" /\ BalancesUnchanged)

\* C12 amended: with such an attester no balance is changed, and the call
\* fails when it looks the proposer up: process_rewards_and_penalties past the
\* genesis epoch, get_attestation_deltas_all with Include, and
\* get_attestation_deltas_subset with Include for a subset that holds the
\* index. When nothing else is wrong with the inputs the error is
\* ValidatorStatusesInconsistent in those calls, and the other calls (Exclude,
\* a subset without the index, process at genesis) return Ok.
C12_BadProposerIsFatal ==
    (Called /\ BadProposers # {}) =>
        /\ BalancesUnchanged
        /\ LooksUpBadProposer => ret.err # "none"
        /\ NoOtherDefect =>
              ret.err = (IF LooksUpBadProposer
                         THEN "ValidatorStatusesInconsistent" ELSE "none")

\* C12 witness: process past genesis, on tables of equal length, reaches an
\* attester whose proposer is outside the table after a validator that would
\* have been rewarded; it returns the inconsistency error, balances unchanged.
C12_Witness ==
    /\ Processed /\ ~Genesis /\ ~LengthsDiffer /\ NoOtherDefect
    /\ \E v \in BadProposers :
          \E j \in DOMAIN statuses : j < v /\ UnslashedAttester(statuses[j])
    /\ ret.err = "ValidatorStatusesInconsistent" /\ BalancesUnchanged

----------------------------------------------------------------------------

\* the previous-epoch attesters without an inclusion record, and those of them
\* that are eligible and not slashed
MissingInfo ==
    {v \in DOMAIN statuses :
        statuses[v].is_previous_epoch_attester /\ ~statuses[v].inclusion_info.some}
MissingInfoRead == {v \in MissingInfo : UnslashedAttester(statuses[v])}

\* no failure of another kind can be met: the finality delay does not
\* underflow, every status has a delta record and no recorded delay is 0
NoOtherKind ==
    /\ previous_epoch(call.state) >= call.state.finalized_checkpoint_epoch
    /\ call.state.validators >= Len0(statuses)
    /\ ZeroDelays = {}

\* C13 as stated: whenever any status has is_previous_epoch_attester set and no
\* inclusion record, all three entry points return
\* ValidatorStatusesInconsistent.
C13_Original ==
    (Called /\ MissingInfo # {}) => ret.err = "ValidatorStatusesInconsistent"

\* C13 amended: when an eligible, unslashed previous-epoch attester has no
\* inclusion record, get_attestation_deltas_all and
\* get_attestation_deltas_subset (either mode, any subset) and
\* process_rewards_and_penalties past the genesis epoch return an error and no
\* result: ValidatorStatusesInconsistent unless a failure of another kind is
\* met first.  The record of a slashed or ineligible attester is never read:
\* when only such records are missing and nothing else is wrong, the delta
\* queries return Ok.  At the genesis epoch process returns Ok.
C13_MissingInfoIsInconsistent ==
    Called =>
        /\ MissingInfoRead # {} =>
              /\ (ret.err = "none") <=> (Processed /\ Genesis)
              /\ (NoOtherKind /\ ~(Processed /\ Genesis)) =>
                    ret.err = "ValidatorStatusesInconsistent"
        /\ (/\ MissingInfo # {} /\ MissingInfoRead = {}
            /\ QueriedAll \/ QueriedSubset
            /\ NoOtherDefect /\ BadProposers = {}) => ret.err = "none"

\* C13 witness: a subset query that does not request the attester whose record
\* is missing, nor credits any proposer, still returns the inconsistency error.
C13_Witness ==
    /\ QueriedSubset /\ ~Included
    /\ \E v \in MissingInfoRead : ~Contains(call.validators_subset, v)
    /\ NoOtherKind
    /\ ret.err = "ValidatorStatusesInconsistent"

----------------------------------------------------------------------------

Queried == QueriedAll \/ QueriedSubset

\* index j is one whose own deltas the query computes
Requested(j) == QueriedAll \/ Contains(call.validators_subset, j)

\* the eligible validators whose own deltas are computed and that have no
\* record in the delta table
MissingRecord ==
    {j \in DOMAIN statuses :
        statuses[j].is_eligible /\ Requested(j) /\ j >= call.state.validators}

\* the attesters whose proposer is outside the table and is looked up
LookedUpBadProposers ==
    {v \in BadProposers :
        Included /\ Requested(statuses[v].inclusion_info.proposer_index)}

\* inputs on which no component function fails: the finality delay does not
\* underflow, every unslashed attester has a record with a delay of at least 1,
\* and the base reward and the inactivity penalty of every eligible validator
\* fit the integer width
QuietInputs ==
    /\ previous_epoch(call.state) >= call.state.finalized_checkpoint_epoch
    /\ \A j \in DOMAIN statuses :
          UnslashedAttester(statuses[j]) =>
              /\ statuses[j].inclusion_info.some
              /\ statuses[j].inclusion_info.delay >= 1
    /\ \A j \in DOMAIN statuses :
          statuses[j].is_eligible =>
              /\ IsOk(get_base_reward(statuses[j].current_epoch_effective_balance,
                                      SqrtTotalActiveBalance(total_balances.current_epoch),
                                      call.spec))
              /\ IsOk(get_inactivity_penalty_delta(
                          statuses[j], BaseReward(j),
                          previous_epoch(call.state)
                              - call.state.finalized_checkpoint_epoch,
                          call.spec))

\* C14 as stated: get_attestation_deltas_all and get_attestation_deltas_subset
\* return an inconsistency error, before computing any delta, whenever the
\* three tables do not have the same length.
C14_Original ==
    (Queried /\ LengthsDiffer) =>
        (ret.err = "ValidatorStatusesInconsistent" /\ ret.calls = {})

\* C14 amended: only process_rewards_and_penalties compares the table lengths
\* (past genesis, before any base reward is computed).  The delta queries make
\* no such comparison and never read the balance table: on inputs that fail
\* for no other reason they return Ok, with one delta per entry of the
\* validator table, unless a validator whose own deltas are computed has no
\* delta record (DeltaOutOfBounds) or a proposer that is looked up is outside
\* the table (ValidatorStatusesInconsistent).
C14_LengthsComparedByProcessOnly ==
    /\ (Processed /\ ~Genesis /\ LengthsDiffer) =>
          (ret.err = "ValidatorStatusesInconsistent" /\ ret.calls = {})
    /\ (Queried /\ QuietInputs) =>
          /\ (ret.err = "none") <=> (MissingRecord = {} /\ LookedUpBadProposers = {})
          /\ ret.err \in {"none", "DeltaOutOfBounds", "ValidatorStatusesInconsistent"}
          /\ (MissingRecord # {} /\ BadProposers = {}) => ret.err = "DeltaOutOfBounds"
          /\ (MissingRecord = {} /\ LookedUpBadProposers # {}) =>
                ret.err = "ValidatorStatusesInconsistent"
          /\ (QueriedAll /\ ret.err = "none") => Len0(ret.val) = call.state.validators

\* C14 witness: a full query on a validator table one longer than the status
\* table returns a result with rewards in it.
C14_Witness ==
    /\ QueriedAll /\ QuietInputs
    /\ call.state.validators = Len0(statuses) + 1
    /\ ret.err = "none"
    /\ ret.calls # {}
    /\ \E i \in DOMAIN ret.val : Rewards(ret.val[i]) > 0

----------------------------------------------------------------------------

\* the state of the call, one epoch after genesis: its previous epoch is the
\* genesis epoch too
StateAfterGenesis == [call.state EXCEPT !.current_epoch = GENESIS_EPOCH + 1]

\* the delta records a query returned
ReturnedDeltas ==
    IF QueriedAll THEN {ret.val[i] : i \in DOMAIN ret.val}
    ELSE {ret.val[k][2] : k \in 1..Len(ret.val)}

\* C15 as stated: at the genesis epoch get_attestation_deltas_all and
\* get_attestation_deltas_subset return no non-zero reward or penalty for any
\* validator, whatever the statuses and total balances.
C15_Original ==
    (Queried /\ Genesis) =>
        /\ ret.err = "none"
        /\ \A d \in ReturnedDeltas : Rewards(d) = 0 /\ Penalties(d) = 0

\* C15 amended: only process_rewards_and_penalties returns at once at the
\* genesis epoch.  The delta queries compute there what they compute at any
\* epoch whose previous epoch is the genesis epoch: the same error or the same
\* deltas as one epoch later; in a full result an eligible unslashed attester
\* has its inclusion reward (and the credits routed to it) and any other
\* eligible validator a source penalty of its base reward.
C15_GenesisQueriesCompute ==
    /\ (QueriedAll /\ Genesis) =>
          \A later \in {get_attestation_deltas_all(StateAfterGenesis, validator_statuses,
                                                     call.proposer_reward, call.spec)} :
              /\ ret.err = later.err
              /\ ret.calls = later.calls
              /\ ret.err = "none" =>
                    /\ ret.val = later.val
                    /\ \A i \in DOMAIN ret.val \cap DOMAIN statuses :
                          statuses[i].is_eligible =>
                              IF UnslashedAttester(statuses[i])
                              THEN ret.val[i].inclusion_delay_delta.rewards =
                                      OwnInclusionReward(i)
                                      + (IF Included THEN CreditsTo(i) ELSE 0)
                              ELSE ret.val[i].source_delta =
                                      [rewards |-> 0, penalties |-> BaseReward(i)]
    /\ (QueriedSubset /\ Genesis) =>
          \A later \in {get_attestation_deltas_subset(StateAfterGenesis,
                                                        validator_statuses,
                                                        call.proposer_reward,
                                                        call.validators_subset, call.spec)} :
              /\ ret.err = later.err
              /\ ret.calls = later.calls
              /\ ret.err = "none" => ret.val = later.val
    /\ (Processed /\ Genesis) => (ret.err = "none" /\ ret.calls = {})

\* C15 witness: a full query at the genesis epoch returns rewards for an
\* attester and computed its base reward.
C15_Witness ==
    /\ QueriedAll /\ Genesis /\ ret.err = "none"
    /\ \E i \in DOMAIN ret.val \cap DOMAIN statuses :
          /\ UnslashedAttester(statuses[i])
          /\ i \in ret.calls
          /\ ret.val[i].source_delta.rewards > 0
          /\ ret.val[i].inclusion_delay_delta.rewards > 0

----------------------------------------------------------------------------

\* the state of the call with the balance table the call left behind
StateWritten == [call.state EXCEPT !.balances = ret.balances]

\* C16: process_rewards_and_penalties writes no balance until every delta has
\* been computed: when the delta computation fails for any validator the call
\* returns that error with every balance as before; and the deltas do not
\* depend on the balances the call writes.
C16_DeltasBeforeBalances ==
    (Processed /\ ~Genesis /\ ~LengthsDiffer) =>
        \A all \in {AllDeltas("Include")} :
            /\ ret.calls = all.calls
            /\ all.err # "none" => (ret.err = all.err /\ BalancesUnchanged)
            /\ all.err = "none" =>
                  get_attestation_deltas_all(StateWritten, validator_statuses,
                                             "Include", call.spec).val = all.val

\* C16 witness: the delta computation fails at the second validator after the
\* first, an attester due a reward, has been dealt with; the call returns the
\* error and no balance has changed.
C16_Witness ==
    /\ Processed /\ ~Genesis /\ ~LengthsDiffer
    /\ 0 \in DOMAIN statuses /\ UnslashedAttester(statuses[0])
    /\ statuses[0].inclusion_info.some /\ statuses[0].inclusion_info.delay >= 1
    /\ OwnInclusionReward(0) > 0
    /\ ret.calls = {0, 1}
    /\ ret.err \in {"DivisionByZero", "ValidatorStatusesInconsistent"}
    /\ ret.err = AllDeltas("Include").err
    /\ BalancesUnchanged

----------------------------------------------------------------------------

\* the proposer credits folded into entry i of a result
CreditsFolded(i) == IF Included THEN CreditsTo(i) ELSE 0

\* the delta of validator index i, component by component: its own five
\* components when it has a status and is eligible, and the credits routed to it
DeltaOf(i) ==
    IF i \in DOMAIN statuses /\ statuses[i].is_eligible
    THEN [source_delta |->
              get_source_delta(statuses[i], BaseReward(i), total_balances,
                               FinalityDelay, call.spec).val,
          target_delta |->
              get_target_delta(statuses[i], BaseReward(i), total_balances,
                               FinalityDelay, call.spec).val,
          head_delta |->
              get_head_delta(statuses[i], BaseReward(i), total_balances,
                             FinalityDelay, call.spec).val,
          inclusion_delay_delta |->
              [rewards |-> OwnInclusionReward(i) + CreditsFolded(i), penalties |-> 0],
          inactivity_penalty_delta |->
              get_inactivity_penalty_delta(statuses[i], BaseReward(i), FinalityDelay,
                                           call.spec).val]
    ELSE [AttestationDeltaDefault EXCEPT
              !.inclusion_delay_delta.rewards = CreditsFolded(i)]

\* C17: a successful get_attestation_deltas_all returns one AttestationDelta
\* per entry of the validator table, and entry i is the delta of validator i.
C17_OneDeltaPerValidator ==
    (QueriedAll /\ ret.err = "none") =>
        /\ DOMAIN ret.val = 0..(call.state.validators - 1)
        /\ \A i \in DOMAIN ret.val : ret.val[i] = DeltaOf(i)

\* C17 witness: a validator table one longer than the status table; the result
\* has an entry per validator, those of validators 0 and 1 differ and the
\* validator without a status has a zero delta.
C17_Witness ==
    /\ QueriedAll /\ ret.err = "none"
    /\ Len0(statuses) = 2 /\ call.state.validators = 3
    /\ Len0(ret.val) = 3
    /\ ret.val[0] # ret.val[1]
    /\ Rewards(ret.val[0]) > 0 /\ Rewards(ret.val[1]) > 0
    /\ ret.val[2] = AttestationDeltaDefault

----------------------------------------------------------------------------

\* the eligible slashed validators
Slashed == {i \in DOMAIN statuses : statuses[i].is_eligible /\ statuses[i].is_slashed}

\* C18: an eligible slashed validator, whatever its attester flags and its
\* inclusion record, has source, target and head deltas of no reward and a
\* penalty of its base reward, no inclusion-delay reward of its own, and
\* yields no credit to the proposer it records.
C18_SlashedNeverMember ==
    (QueriedAll /\ ret.err = "none") =>
        \A i \in Slashed \cap DOMAIN ret.val :
            LET missed == [rewards |-> 0, penalties |-> BaseReward(i)]
                p == statuses[i].inclusion_info.proposer_index
            IN  /\ ret.val[i].source_delta = missed
                /\ ret.val[i].target_delta = missed
                /\ ret.val[i].head_delta = missed
                /\ ret.val[i].inclusion_delay_delta =
                      [rewards |-> CreditsFolded(i), penalties |-> 0]
                /\ (statuses[i].inclusion_info.some /\ p \in DOMAIN ret.val) =>
                      ret.val[p].inclusion_delay_delta.rewards
                          = OwnInclusionReward(p) + CreditsFolded(p)

\* C18 witness: an eligible slashed validator with all three attester flags
\* set and an inclusion record naming another validator; with Include it is
\* penalized three base rewards and its proposer gets nothing from it.
C18_Witness ==
    /\ QueriedAll /\ ret.err = "none" /\ Included
    /\ \E i \in Slashed \cap DOMAIN ret.val :
          /\ statuses[i].is_previous_epoch_attester
          /\ statuses[i].is_previous_epoch_target_attester
          /\ statuses[i].is_previous_epoch_head_attester
          /\ statuses[i].inclusion_info.some
          /\ statuses[i].inclusion_info.proposer_index \in DOMAIN ret.val \ {i}
          /\ BaseReward(i) > 0
          /\ ret.val[i].source_delta.penalties = BaseReward(i)
          /\ ret.val[i].inclusion_delay_delta.rewards = 0
          /\ CreditsTo(statuses[i].inclusion_info.proposer_index) = 0
          /\ Rewards(ret.val[statuses[i].inclusion_info.proposer_index]) = 0

----------------------------------------------------------------------------

\* C19: get_inactivity_penalty_delta returns a zero delta when finality_delay
\* is at most min_epochs_to_inactivity_penalty; above it the penalty is
\* base_rewards_per_epoch * base_reward - floor(base_reward / proposer_reward_quotient),
\* plus floor(effective_balance * finality_delay / inactivity_penalty_quotient)
\* exactly when the validator is slashed or is not a target attester; the
\* reward is always 0.  The arithmetic is checked: a zero quotient or a value
\* beyond u64 is an error.
C19_InactivityPenalty ==
    (call.op = "get_inactivity_penalty_delta") =>
        LET v == call.validator
            B == call.base_reward
            sp == call.spec
            leak == call.finality_delay > sp.min_epochs_to_inactivity_penalty
            extra == v.is_slashed \/ ~v.is_previous_epoch_target_attester
            scaled == v.current_epoch_effective_balance * call.finality_delay
            undefined ==
                \/ sp.base_rewards_per_epoch * B > U64_MAX
                \/ sp.proposer_reward_quotient = 0
                \/ extra /\ (scaled > U64_MAX \/ sp.inactivity_penalty_quotient = 0)
            base == sp.base_rewards_per_epoch * B - (B \div sp.proposer_reward_quotient)
            total == base + (IF extra THEN scaled \div sp.inactivity_penalty_quotient
                             ELSE 0)
        IN  IF ~leak THEN ret.err = "none" /\ ret.val = DeltaDefault
            ELSE IF undefined THEN ret.err \in {"Overflow", "DivisionByZero"}
            ELSE IF total > U64_MAX THEN ret.err = "Overflow"
            ELSE /\ ret.err = "none"
                 /\ ret.val = [rewards |-> 0, penalties |-> total]

\* C19 witness: in a leak, a slashed target attester with base reward 1000 and
\* effective balance 16 at finality delay 3: 4 * 1000 - 125 + floor(48 / 4).
C19_Witness ==
    /\ call.op = "get_inactivity_penalty_delta"
    /\ call.validator.is_slashed /\ call.validator.is_previous_epoch_target_attester
    /\ call.validator.current_epoch_effective_balance = 16
    /\ call.base_reward = 1000
    /\ call.finality_delay = 3
    /\ call.spec.proposer_reward_quotient = 8
    /\ call.spec.inactivity_penalty_quotient = 4
    /\ ret.err = "none"
    /\ ret.val = [rewards |-> 0, penalties |-> 3887]

----------------------------------------------------------------------------

Leak == FinalityDelay > call.spec.min_epochs_to_inactivity_penalty

\* the eligible unslashed source, target and head attesters included with
\* delay 1 to whom no proposer credit is routed
NeutralInLeak ==
    {i \in DOMAIN statuses :
        /\ UnslashedAttester(statuses[i])
        /\ statuses[i].is_previous_epoch_target_attester
        /\ statuses[i].is_previous_epoch_head_attester
        /\ statuses[i].inclusion_info.some
        /\ statuses[i].inclusion_info.delay = 1
        /\ CreditsTo(i) = 0}

\* C20: during a leak, with base_rewards_per_epoch = 4, an eligible unslashed
\* source, target and head attester with inclusion delay 1 that receives no
\* proposer credit has flattened rewards equal to its flattened penalties, and
\* process_rewards_and_penalties leaves its balance as it was.
C20_NeutralInLeak ==
    /\ (QueriedAll /\ ret.err = "none" /\ Leak /\ call.spec.base_rewards_per_epoch = 4) =>
          \A i \in NeutralInLeak \cap DOMAIN ret.val :
              /\ Rewards(ret.val[i]) = Penalties(ret.val[i])
              /\ Rewards(ret.val[i]) = 4 * BaseReward(i) - CreditOf(i)
    /\ (Processed /\ ~Genesis /\ ~LengthsDiffer /\ Leak
        /\ call.spec.base_rewards_per_epoch = 4) =>
          \A i \in NeutralInLeak : ret.balances[i] = call.state.balances[i]

\* C20 witness: during a leak process succeeds, such a validator with a
\* positive base reward keeps its balance and its proposer's balance grows.
C20_Witness ==
    /\ Processed /\ ~Genesis /\ ~LengthsDiffer /\ Leak /\ ret.err = "none"
    /\ \E i \in NeutralInLeak :
          /\ BaseReward(i) > 0
          /\ ret.balances[i] = call.state.balances[i]
          /\ Rewards(AllDeltas("Include").val[i]) = 4 * BaseReward(i) - CreditOf(i)
          /\ \E p \in DOMAIN ret.balances :
                /\ p = statuses[i].inclusion_info.proposer_index
                /\ ret.balances[p] > call.state.balances[p]

----------------------------------------------------------------------------

\* the finalized checkpoint is ahead of the previous epoch
CheckpointAhead ==
    call.state.finalized_checkpoint_epoch > previous_epoch(call.state)

\* C21 as stated: with the finalized checkpoint ahead of the previous epoch, the
\* two delta queries return the arithmetic error with no deltas, and process
\* past the genesis epoch returns it with no balance changed.
C21_Original ==
    (Called /\ CheckpointAhead /\ (Processed => ~Genesis)) =>
        (ret.err = "Overflow" /\ BalancesUnchanged)

\* C21 amended: with the finalized checkpoint ahead of the previous epoch the
\* subtraction fails wherever it is executed: the two delta queries return the
\* arithmetic error with no deltas and no base reward computed, and process past
\* the genesis epoch returns it with no balance changed when the three tables
\* have equal length; with unequal tables process returns
\* ValidatorStatusesInconsistent before it subtracts. The delay is never wrapped
\* or clamped: no such call returns a result.
C21_UnderflowIsFatal ==
    (Called /\ CheckpointAhead /\ (Processed => ~Genesis)) =>
        /\ BalancesUnchanged
        /\ ret.calls = {}
        /\ ret.err # "none"
        /\ Queried => (ret.err = "Overflow" /\ ret.val = 0)
        /\ Processed =>
              ret.err = (IF LengthsDiffer THEN "ValidatorStatusesInconsistent"
                         ELSE "Overflow")

\* C21 witness: past genesis, with equal tables and a first validator that a
\* delay of 0 would reward, process returns the arithmetic error and the
\* balances are as before.
C21_Witness ==
    /\ Processed /\ ~Genesis /\ ~LengthsDiffer /\ CheckpointAhead
    /\ UnslashedAttester(statuses[0])
    /\ statuses[0].inclusion_info.some /\ statuses[0].inclusion_info.delay >= 1
    /\ ret.err = "Overflow" /\ ret.calls = {} /\ BalancesUnchanged

----------------------------------------------------------------------------

\* C22: flatten returns the sum of the five fields' rewards and the sum of the
\* five fields' penalties when both sums fit in the integer width, and an error,
\* never a wrapped value, when either sum exceeds it.
C22_FlattenSums ==
    (call.op = "flatten") =>
        IF Rewards(call.self) <= U64_MAX /\ Penalties(call.self) <= U64_MAX
        THEN ret = Ok([rewards |-> Rewards(call.self),
                       penalties |-> Penalties(call.self)])
        ELSE ret = Err("Overflow")

\* C22 witness: the rewards of the five fields add up to exactly the largest
\* integer and the penalties to 2; flatten returns both sums.
C22_Witness ==
    /\ call.op = "flatten"
    /\ Rewards(call.self) = U64_MAX /\ Penalties(call.self) = 2
    /\ call.self.inactivity_penalty_delta.penalties = 1
    /\ ret = Ok([rewards |-> U64_MAX, penalties |-> 2])

----------------------------------------------------------------------------

\* first pass: the own-index contributions of validator index i, computed from
\* its status alone and written to no shared table
OwnContribution(i) ==
    IF i \in DOMAIN statuses /\ statuses[i].is_eligible
    THEN [source_delta |->
              get_source_delta(statuses[i], BaseReward(i), total_balances,
                               FinalityDelay, call.spec).val,
          target_delta |->
              get_target_delta(statuses[i], BaseReward(i), total_balances,
                               FinalityDelay, call.spec).val,
          head_delta |->
              get_head_delta(statuses[i], BaseReward(i), total_balances,
                             FinalityDelay, call.spec).val,
          inclusion_delay_delta |->
              get_inclusion_delay_delta(statuses[i], BaseReward(i), call.spec).val.delta,
          inactivity_penalty_delta |->
              get_inactivity_penalty_delta(statuses[i], BaseReward(i), FinalityDelay,
                                           call.spec).val]
    ELSE AttestationDeltaDefault

\* the credit that validator v yields to proposer p (zero if it yields none)
CreditYielded(v, p) ==
    IF ~statuses[v].is_eligible THEN DeltaDefault
    ELSE LET pd == get_inclusion_delay_delta(statuses[v], BaseReward(v),
                                             call.spec).val.proposer_delta
         IN  IF pd.some /\ pd.proposer_index = p THEN pd.delta ELSE DeltaDefault

\* second pass: the reduction keyed by proposer index p, here over the
\* validators from the highest index v down to 0
RECURSIVE CreditReduction(_, _, _)
CreditReduction(acc, v, p) ==
    IF v < 0 THEN acc
    ELSE CreditReduction(DeltaCombine(acc, CreditYielded(v, p)).val, v - 1, p)

\* the two-pass delta of validator index i
TwoPass(i) ==
    LET credit == IF Included
                  THEN CreditReduction(DeltaDefault, Len0(statuses) - 1, i)
                  ELSE DeltaDefault
        own == OwnContribution(i)
    IN  [own EXCEPT !.inclusion_delay_delta = DeltaCombine(@, credit).val]

\* C23: when get_attestation_deltas_all succeeds, the single index-ordered pass
\* yields, for every validator, the five-field delta of the two-pass
\* computation: own-index contributions first, then the proposer credits
\* reduced by proposer index.
C23_TwoPassEquivalent ==
    (QueriedAll /\ ret.err = "none") =>
        \A i \in DOMAIN ret.val : ret.val[i] = TwoPass(i)

\* C23 witness: two attesters that are each other's proposer, so one credit
\* reaches a record before its owner's contributions and the other after; both
\* records hold the owner's inclusion reward and the credit.
C23_Witness ==
    /\ QueriedAll /\ Included /\ ret.err = "none"
    /\ Len0(statuses) = 2 /\ call.state.validators = 2
    /\ CreditYielded(0, 1).rewards > 0 /\ CreditYielded(1, 0).rewards > 0
    /\ \A i \in {0, 1} :
          /\ OwnContribution(i).inclusion_delay_delta.rewards > 0
          /\ ret.val[i].inclusion_delay_delta.rewards =
                 OwnContribution(i).inclusion_delay_delta.rewards
                 + CreditYielded(1 - i, i).rewards

----------------------------------------------------------------------------

\* the application pass fails for validator i: its five fields do not flatten,
\* or its balance plus its flattened rewards overflows
FailsAt(deltas, i) ==
    \/ flatten(deltas[i]).err # "none"
    \/ call.state.balances[i] + Rewards(deltas[i]) > U64_MAX

\* the indices at which the application pass of the call would fail
Failing(deltas) == {i \in DOMAIN deltas : FailsAt(deltas, i)}

\* C24: when the delta computation succeeds and flattening or the balance
\* increase fails for validator i (the first such index), process returns the
\* error with the balances below i updated (reward added, penalty subtracted,
\* saturating at 0) and the balances at i and above unchanged.
C24_PartialApplication ==
    (Processed /\ ~Genesis /\ ~LengthsDiffer) =>
        \A all \in {AllDeltas("Include")} :
            (all.err = "none" /\ Failing(all.val) # {}) =>
               LET i == CHOOSE k \in Failing(all.val) :
                            \A m \in Failing(all.val) : k <= m
               IN  /\ ret.err = "Overflow"
                   /\ \A j \in DOMAIN all.val :
                         ret.balances[j] =
                             IF j < i
                             THEN saturating_sub(call.state.balances[j]
                                                 + Rewards(all.val[j]),
                                                 Penalties(all.val[j]))
                             ELSE call.state.balances[j]

\* C24 witness: the five fields of validator 1 do not flatten (three base
\* rewards and two proposer credits exceed the integer width); the call returns
\* the error, the balance of validator 0 has grown by its rewards and that of
\* validator 1 has not changed.
C24_Witness ==
    /\ Processed /\ ~Genesis /\ ~LengthsDiffer
    /\ Len0(statuses) = 2
    /\ AllDeltas("Include").err = "none"
    /\ flatten(AllDeltas("Include").val[0]).err = "none"
    /\ flatten(AllDeltas("Include").val[1]).err = "Overflow"
    /\ ret.err = "Overflow"
    /\ ret.balances[0] =
           call.state.balances[0] + Rewards(AllDeltas("Include").val[0])
    /\ ret.balances[0] > call.state.balances[0]
    /\ ret.balances[1] = call.state.balances[1]

----------------------------------------------------------------------------

\* the AttestationDelta records of a successful query result
ReturnedRecords ==
    IF QueriedAll THEN {ret.val[i] : i \in DOMAIN ret.val}
    ELSE {ret.val[k][2] : k \in 1..Len(ret.val)}

\* a component delta that does not both reward and penalize
OneSided(c) == c.rewards = 0 \/ c.penalties = 0

\* C25: in every AttestationDelta returned by get_attestation_deltas_all or
\* get_attestation_deltas_subset, the source, target and head deltas never have
\* both rewards and penalties non-zero, the inclusion-delay delta has no
\* penalties and the inactivity-penalty delta has no rewards.
C25_ComponentShapes ==
    (Queried /\ ret.err = "none") =>
        \A d \in ReturnedRecords :
            /\ OneSided(d.source_delta)
            /\ OneSided(d.target_delta)
            /\ OneSided(d.head_delta)
            /\ d.inclusion_delay_delta.penalties = 0
            /\ d.inactivity_penalty_delta.rewards = 0

\* C25 witness: a subset query in a leak returns the record of a validator that
\* attested to the source only and was credited as a proposer: a source reward,
\* target and head penalties, an inclusion-delay reward and an inactivity penalty.
C25_Witness ==
    /\ QueriedSubset /\ Included /\ ret.err = "none"
    /\ FinalityDelay > call.spec.min_epochs_to_inactivity_penalty
    /\ \E k \in 1..Len(ret.val) :
          LET d == ret.val[k][2]
          IN  /\ d.source_delta.rewards > 0 /\ d.source_delta.penalties = 0
              /\ d.target_delta.penalties > 0 /\ d.target_delta.rewards = 0
              /\ d.head_delta.penalties > 0 /\ d.head_delta.rewards = 0
              /\ d.inclusion_delay_delta.rewards > OwnInclusionReward(ret.val[k][1])
              /\ OwnInclusionReward(ret.val[k][1]) > 0
              /\ d.inactivity_penalty_delta.penalties > 0

----------------------------------------------------------------------------

\* C26: outside a leak, for an increment of at least 1, a total balance of at
\* least one increment and an attesting balance of at most the total balance,
\* the reward of a member, floor(B * floor(attesting / increment) /
\* floor(total / increment)), does not exceed the base reward B whenever the
\* computation does not overflow.
C26_ProportionalRewardBounded ==
    (/\ call.op = "get_attestation_component_delta"
     /\ call.index_in_unslashed_attesting_indices
     /\ call.finality_delay <= call.spec.min_epochs_to_inactivity_penalty
     /\ call.spec.effective_balance_increment >= 1
     /\ call.total_balances.current_epoch >= call.spec.effective_balance_increment
     /\ call.attesting_balance <= call.total_balances.current_epoch
     /\ ret.err = "none") =>
        /\ ret.val.rewards =
               (call.base_reward
                * (call.attesting_balance \div call.spec.effective_balance_increment))
               \div (call.total_balances.current_epoch
                     \div call.spec.effective_balance_increment)
        /\ ret.val.rewards <= call.base_reward

\* C26 witness: with an attesting balance of two increments and a half out of
\* a total of four, a member with base reward 1000 is rewarded 500.
C26_Witness ==
    /\ call.op = "get_attestation_component_delta"
    /\ call.index_in_unslashed_attesting_indices
    /\ call.finality_delay = call.spec.min_epochs_to_inactivity_penalty
    /\ call.spec.effective_balance_increment = EFFECTIVE_BALANCE_INCREMENT
    /\ call.attesting_balance = 2 * EFFECTIVE_BALANCE_INCREMENT + 8
    /\ call.total_balances.current_epoch = 4 * EFFECTIVE_BALANCE_INCREMENT
    /\ call.base_reward = 1000
    /\ ret = Ok([rewards |-> 500, penalties |-> 0])

----------------------------------------------------------------------------

\* C27: during a leak, with base_rewards_per_epoch = 4 and
\* ProposerRewardCalculation::Exclude, every validator's flattened rewards are
\* at most its flattened penalties in the result of get_attestation_deltas_all
\* (a result exists only when every inclusion delay read is at least 1).
C27_NoGainInLeak ==
    (/\ QueriedAll /\ ~Included /\ ret.err = "none"
     /\ Leak /\ call.spec.base_rewards_per_epoch = 4) =>
        \A i \in DOMAIN ret.val : Rewards(ret.val[i]) <= Penalties(ret.val[i])

\* C27 witness: in a leak, without proposer credits, an attester included with
\* delay 1 has rewards equal to its penalties and one included with delay 2 has
\* rewards below its penalties.
C27_Witness ==
    /\ QueriedAll /\ ~Included /\ ret.err = "none"
    /\ Leak /\ call.spec.base_rewards_per_epoch = 4
    /\ Len0(statuses) = 2 /\ call.state.validators = 2
    /\ NeutralInLeak # {}
    /\ \E i \in DOMAIN ret.val :
          /\ UnslashedAttester(statuses[i])
          /\ statuses[i].inclusion_info.delay = 1
          /\ Rewards(ret.val[i]) = Penalties(ret.val[i])
          /\ Rewards(ret.val[i]) > 0
    /\ \E j \in DOMAIN ret.val :
          /\ UnslashedAttester(statuses[j])
          /\ statuses[j].inclusion_info.delay = 2
          /\ Rewards(ret.val[j]) > 0
          /\ Rewards(ret.val[j]) < Penalties(ret.val[j])

----------------------------------------------------------------------------

\* the statuses of the call with every recorded proposer_index replaced by 0
ProposersErased ==
    [validator_statuses EXCEPT
        !.statuses = [i \in DOMAIN statuses |->
                         [statuses[i] EXCEPT !.inclusion_info.proposer_index = 0]]]

\* the query of the call, made with other statuses
Requery(vs) ==
    IF QueriedAll
    THEN get_attestation_deltas_all(call.state, vs, call.proposer_reward, call.spec)
    ELSE get_attestation_deltas_subset(call.state, vs, call.proposer_reward,
                                       call.validators_subset, call.spec)

\* the (index, record) pairs of a successful query result
ReturnedPairs ==
    IF QueriedAll THEN {<<i, ret.val[i]>> : i \in DOMAIN ret.val}
    ELSE {ret.val[k] : k \in 1..Len(ret.val)}

\* C28: with ProposerRewardCalculation::Exclude the outcome of a query does not
\* depend on any recorded proposer_index, so an index outside the validator
\* table raises no error; on success every record is its validator's own
\* contribution (a function of its status, the total balances, the finality
\* delay and the constants) and its inclusion-delay rewards are the validator's
\* own attester inclusion reward, with no proposer credit.
C28_ExcludeFoldsNoCredit ==
    (Queried /\ ~Included) =>
        /\ \A r \in {Requery(ProposersErased)} :
              ret.err = r.err /\ ret.val = r.val
        /\ (BadProposers # {} /\ NoOtherDefect) => ret.err = "none"
        /\ ret.err = "none" =>
              \A pr \in ReturnedPairs :
                  /\ pr[2] = OwnContribution(pr[1])
                  /\ pr[2].inclusion_delay_delta.rewards = OwnInclusionReward(pr[1])

\* C28 witness: a full computation with Exclude succeeds although validator 1
\* records a proposer outside the validator table, and validator 0, named as
\* proposer by an attester, has only its own inclusion reward.
C28_Witness ==
    /\ QueriedAll /\ ~Included /\ ret.err = "none"
    /\ Len0(statuses) = 2 /\ call.state.validators = 2
    /\ BadProposers = {1}
    /\ CreditsTo(0) > 0
    /\ OwnInclusionReward(0) > 0
    /\ ret.val[0].inclusion_delay_delta.rewards = OwnInclusionReward(0)
    /\ ret.val[1].inclusion_delay_delta.rewards = OwnInclusionReward(1)

----------------------------------------------------------------------------

\* the requested indices
RequestedIndices == {call.validators_subset[k] : k \in 1..Len(call.validators_subset)}

InTable(j) == j < call.state.validators

\* the request without the indices at or beyond the validator-table length
RequestInTable == SelectSeq(call.validators_subset, InTable)

\* a requested index outside the validator table at which an eligible status
\* entry exists
EligibleOutside ==
    {j \in RequestedIndices :
        ~InTable(j) /\ j \in DOMAIN statuses /\ statuses[j].is_eligible}

\* a requested index outside the validator table that an eligible unslashed
\* attester records as its proposer while credits are folded in
ProposerOutside ==
    {j \in RequestedIndices :
        /\ ~InTable(j) /\ Included
        /\ \E v \in BadProposers : statuses[v].inclusion_info.proposer_index = j}

\* the indices of a successful subset result, in the order returned
ReturnedIndices == [k \in 1..Len(ret.val) |-> ret.val[k][1]]

\* a successful subset result lists, in strictly ascending order and once
\* each, exactly the requested indices below the validator-table length
AscendingInTable ==
    /\ \A k \in 1..(Len(ret.val) - 1) : ReturnedIndices[k] < ReturnedIndices[k + 1]
    /\ {ReturnedIndices[k] : k \in 1..Len(ret.val)} =
           {j \in RequestedIndices : InTable(j)}

\* the subset query of the call, made for the in-table part of the request
InTableQuery ==
    get_attestation_deltas_subset(call.state, validator_statuses, call.proposer_reward,
                                  RequestInTable, call.spec)

\* C29 as stated: a successful subset result is ascending, without repetition,
\* and holds exactly the requested indices inside the validator table; a
\* requested index outside it is omitted and not reported as an error, unless
\* an eligible status entry exists at that index.
C29_Original ==
    QueriedSubset =>
        /\ ret.err = "none" => AscendingInTable
        /\ EligibleOutside = {} =>
              \A r \in {InTableQuery} :
                  r.err = "none" => (ret.err = "none" /\ ret.val = r.val)

\* C29 amended: as stated, with a second exception: a requested index outside
\* the validator table is also reported as an error
\* (ValidatorStatusesInconsistent) when, with ProposerRewardCalculation::Include,
\* an eligible unslashed attester records it as its proposer_index.
C29_SubsetResultOrdered ==
    QueriedSubset =>
        /\ ret.err = "none" => AscendingInTable
        /\ \A r \in {InTableQuery} :
              r.err = "none" =>
                  /\ (EligibleOutside = {} /\ ProposerOutside = {}) =>
                        (ret.err = "none" /\ ret.val = r.val)
                  /\ (EligibleOutside # {} /\ ProposerOutside = {}) =>
                        ret.err = "DeltaOutOfBounds"
                  /\ (EligibleOutside = {} /\ ProposerOutside # {}) =>
                        ret.err = "ValidatorStatusesInconsistent"
                  /\ (EligibleOutside # {} /\ ProposerOutside # {}) =>
                        ret.err \in {"DeltaOutOfBounds", "ValidatorStatusesInconsistent"}

\* C29 witness: index 2 of a table of two validators and index 0 are requested,
\* in that order, while validator 1 attests; the result holds the record of
\* validator 0 alone.
C29_Witness ==
    /\ QueriedSubset /\ Included /\ ret.err = "none"
    /\ Len0(statuses) = 2 /\ call.state.validators = 2
    /\ call.validators_subset = <<2, 0>>
    /\ UnslashedAttester(statuses[0]) /\ UnslashedAttester(statuses[1])
    /\ Len(ret.val) = 1 /\ ret.val[1][1] = 0
    /\ ret.val[1][2].inclusion_delay_delta.rewards > 0

----------------------------------------------------------------------------

\* the eligible validators that a subset query was not asked for
Unrequested ==
    {v \in DOMAIN statuses :
        statuses[v].is_eligible /\ ~Contains(call.validators_subset, v)}

\* the base reward of validator v, as a Result
BaseRewardOf(v) ==
    get_base_reward(statuses[v].current_epoch_effective_balance,
                    SqrtTotalActiveBalance(total_balances.current_epoch), call.spec)

\* the base-reward or the inclusion-delay computation fails for validator v
EarlyFailure(v) ==
    \/ ~IsOk(BaseRewardOf(v))
    \/ ~IsOk(get_inclusion_delay_delta(statuses[v], BaseRewardOf(v).val, call.spec))

\* the source, target, head or inactivity-penalty computation, and nothing
\* before it, fails for validator v
LateFailure(v) ==
    /\ ~EarlyFailure(v)
    /\ \/ ~IsOk(get_source_delta(statuses[v], BaseRewardOf(v).val, total_balances,
                                 FinalityDelay, call.spec))
       \/ ~IsOk(get_target_delta(statuses[v], BaseRewardOf(v).val, total_balances,
                                 FinalityDelay, call.spec))
       \/ ~IsOk(get_head_delta(statuses[v], BaseRewardOf(v).val, total_balances,
                               FinalityDelay, call.spec))
       \/ ~IsOk(get_inactivity_penalty_delta(statuses[v], BaseRewardOf(v).val,
                                             FinalityDelay, call.spec))

\* C30: a subset query returns an error when the base-reward or the
\* inclusion-delay computation fails for an eligible validator outside the
\* requested subset; a failure that only the source, target, head or
\* inactivity-penalty computation of such a validator would meet is never
\* raised: the query succeeds when nothing fails early, nothing fails late for
\* a requested validator and every record and proposer looked up exists.
C30_UnrequestedFailures ==
    QueriedSubset =>
        /\ (\E v \in Unrequested : EarlyFailure(v)) => ret.err # "none"
        /\ (/\ previous_epoch(call.state) >= call.state.finalized_checkpoint_epoch
            /\ \A v \in DOMAIN statuses :
                  statuses[v].is_eligible =>
                      /\ ~EarlyFailure(v)
                      /\ Requested(v) => ~LateFailure(v)
            /\ MissingRecord = {}
            /\ LookedUpBadProposers = {}) => ret.err = "none"

\* C30 witness: in a leak, the product of effective balance and finality delay
\* overflows for validator 1, which is not requested; the query for validator 0
\* succeeds and returns its record.
C30_Witness ==
    /\ QueriedSubset /\ ret.err = "none"
    /\ Leak
    /\ 1 \in Unrequested /\ LateFailure(1)
    /\ get_inactivity_penalty_delta(statuses[1], BaseRewardOf(1).val, FinalityDelay,
                                    call.spec).err = "Overflow"
    /\ Len(ret.val) = 1 /\ ret.val[1][1] = 0
    /\ Rewards(ret.val[1][2]) > 0

====
